---- MODULE Spec2Model ----
(***************************************************************************)
(* Kurdistan cities climate dashboard (src/main.py, src/6-dec.py).         *)
(*                                                                         *)
(* The five synthetic generators (load_temperature_data ..                 *)
(* load_health_impact_data) are identical in the two files; each action    *)
(* below is one iteration of a generator's innermost loop, i.e. the        *)
(* computation and the append of one row.  The page script then reads the  *)
(* sidebar widgets, filters the five tables and renders the chart and the  *)
(* statistics panel.                                                       *)
(* The generators are cached (st.cache_data): `Load all data` runs a       *)
(* generator's body only when nothing is cached for it.  The section       *)
(* `Governmental Data` of main.py calls the seven spreadsheet loaders.     *)
(* main.py puts three navigation buttons before the sidebar controls; the  *)
(* branch of the pressed button decides which names the run has bound when *)
(* it comes to filter_data.                                                *)
(*                                                                         *)
(* Numbers.  The code computes in binary floating point; the model         *)
(* computes the same formulas exactly, in fixed point.  Every family has   *)
(* its own unit (TempUnit, RainUnit, ...): a stored integer v stands for   *)
(* the quantity v / Unit.  A call np.random.normal(loc, scale) is          *)
(* loc + scale * z for a standard normal deviate z; the model draws z from *)
(* the finite set Draws.                                                   *)
(*                                                                         *)
(* City names are written without diacritics (Hewler for Hewlêr, ...).     *)
(***************************************************************************)
EXTENDS Integers, Sequences, FiniteSets, TLC

VARIABLES pc,        \* position of the script run
          year,      \* loop variable `year` of the running generator
          month,     \* loop variable `month` of the running generator
          city,      \* index in `cities` of the loop variable `city`
          data,      \* per table, the number of rows appended to `data`
          cache,     \* per table, what st.cache_data holds for its generator
          row,       \* the row appended by the current iteration
          locals,    \* the local variables of the current iteration, the
                     \* file a loader read, the navigation buttons
          widgets,   \* the script variables bound by the sidebar widgets
          filtered,  \* per table, the result of filter_data
          chart,     \* the figure rendered in the main column
          panel,     \* the statistics panel: per city, the rows shown as
                     \* current; in a navigation branch, what it displayed
          err,       \* the exception that ended the script run, or "none"
          step,      \* position in the governmental-data section of main.py
          sheets,    \* per spreadsheet loader, the table it returned
          notices    \* the st.error messages of the script run, in order

genvars == <<pc, year, month, city, data, row, locals>>
pagevars == <<widgets, filtered, chart, panel, err>>
govvars == <<step, sheets, notices>>
vars == <<pc, year, month, city, data, cache, row, locals,
          widgets, filtered, chart, panel, err, step, sheets, notices>>

----------------------------------------------------------------------------
(* Bounds of the model *)

\* standard normal deviates -MaxZ .. MaxZ are drawn, and two far draws
MaxZ == 1
FarZ == 40

\* a multiselect widget returns any subset of its first MaxPick options, or
\* all its options (the default)
MaxPick == 2

Draws == (-MaxZ .. MaxZ) \cup {-FarZ, FarZ}

----------------------------------------------------------------------------
(* Constants of the program *)

FirstYear == 1950
LastYear == 2023
BreakYear == 1980

years == FirstYear .. LastYear
months == 1 .. 12
cities == <<"Hewler", "Dihok", "Silemani", "Helebce", "Kerkuk">>

Tables == {"temperature", "rainfall", "water", "economic", "health"}

\* calendar.month_name[1..12]
month_name == <<"January", "February", "March", "April", "May", "June", "July",
                "August", "September", "October", "November", "December">>

\* mutant: the last season under another name
SeasonOf_fall(m) ==
    IF m \in {12, 1, 2} THEN "Winter"
    ELSE IF m \in {3, 4, 5} THEN "Spring"
    ELSE IF m \in {6, 7, 8} THEN "Summer"
    ELSE "Fall"

\* the conditional expression that fills the column Season
SeasonOf(m) ==
    IF m \in {12, 1, 2} THEN "Winter"
    ELSE IF m \in {3, 4, 5} THEN "Spring"
    ELSE IF m \in {6, 7, 8} THEN "Summer"
    ELSE "Autumn"

\* mutant: a further draw that the caller does not control, here at one
\* standard deviation
normal_twice(loc, scale, z) == loc + scale * z + scale

\* np.random.normal(loc, scale), for the standard normal deviate z
normal(loc, scale, z) == loc + scale * z

Max0(x) == IF x > 0 THEN x ELSE 0

----------------------------------------------------------------------------
(* load_temperature_data.  Unit: 1/1000 degree Celsius. *)

TempUnit == 1000

temperature_baselines ==
    [Hewler   |-> [temp |-> 33, seasonal_var |-> 15],
     Dihok    |-> [temp |-> 31, seasonal_var |-> 14],
     Silemani |-> [temp |-> 30, seasonal_var |-> 13],
     Helebce  |-> [temp |-> 29, seasonal_var |-> 13],
     Kerkuk   |-> [temp |-> 34, seasonal_var |-> 16]]

\* 1000 * cos(2 pi k / 12) for k = 0 .. 11, rounded; Cos12[k + 1]
Cos12 == <<1000, 866, 500, 0, -500, -866, -1000, -866, -500, 0, 500, 866>>

\* mutant: the sign of the cosine term lost
temperature_season_effect_plus(seasonal_var, m) == seasonal_var * Cos12[m]

\* mutant: the phase `month` for `month - 1`
temperature_season_effect_shifted(seasonal_var, m) ==
    -(seasonal_var * Cos12[(m % 12) + 1])

\* season_effect = -seasonal_var * np.cos(2 * np.pi * (month - 1) / 12)
temperature_season_effect(seasonal_var, m) == -(seasonal_var * Cos12[m])

\* the two branches of `if year < 1980`
temperature_trend_before(y) == 10 * (y - FirstYear)
\* mutant: the offset 0.3 of the second branch lost
temperature_trend_after_jump(y) == 30 * (y - BreakYear)

temperature_trend_after(y) == 300 + 30 * (y - BreakYear)

temperature_trend(y) ==
    IF y < BreakYear THEN temperature_trend_before(y)
    ELSE temperature_trend_after(y)

\* standard deviations of the two draws: 0.5 and 2
TempSigma == TempUnit \div 2
ExtremeSigma == 2 * TempUnit

\* temp = baseline + season_effect + trend + np.random.normal(0, 0.5)
temperature_value(c, y, m, z) ==
    temperature_baselines[c].temp * TempUnit
    + temperature_season_effect(temperature_baselines[c].seasonal_var, m)
    + temperature_trend(y)
    + normal(0, TempSigma, z)

\* mutant: the first draw reused, scaled to the second standard deviation
extreme_temp_value_reused(temp, z1, z2) == temp + normal(0, ExtremeSigma, z1)

\* extreme_temp = temp + np.random.normal(0, 2)
extreme_temp_value(temp, z1, z2) == temp + normal(0, ExtremeSigma, z2)

\* is_extreme = extreme_temp > 40
is_extreme_value(extreme_temp) == extreme_temp > 40 * TempUnit

----------------------------------------------------------------------------
(* load_rainfall_data.  Unit: 1/240000 mm, so that baseline/12, the        *)
(* season factor (tenths), the trend (1/200) and the noise multiplier      *)
(* (tenths) are all whole numbers.                                         *)

RainUnit == 240000

\* seasonal_var is held in tenths (0.8 is 8)
rainfall_baselines ==
    [Hewler   |-> [rain |-> 400, seasonal_var |-> 8],
     Dihok    |-> [rain |-> 550, seasonal_var |-> 7],
     Silemani |-> [rain |-> 650, seasonal_var |-> 6],
     Helebce  |-> [rain |-> 700, seasonal_var |-> 6],
     Kerkuk   |-> [rain |-> 350, seasonal_var |-> 9]]

\* mutant: the calendar winter for the wet months, March with April and May
rainfall_season_factor_winter(m) ==
    IF m \in {12, 1, 2} THEN 20
    ELSE IF m \in {3, 4, 5} THEN 15
    ELSE IF m \in {6, 7, 8} THEN 2
    ELSE 10

\* season_factor, in tenths: 2.0, 1.5, 0.2, 1.0
rainfall_season_factor(m) ==
    IF m \in {12, 1, 2, 3} THEN 20
    ELSE IF m \in {4, 5} THEN 15
    ELSE IF m \in {6, 7, 8} THEN 2
    ELSE 10

\* trend, in 1/200: 1.0 and 1.0 - 0.005 * (year - 1980)
rainfall_trend_before(y) == 200

\* mutant: the sign of the slope flipped
rainfall_trend_after_rising(y) == 200 + (y - BreakYear)

\* mutant: a decline of 0.015 a year
rainfall_trend_after_steep(y) == 200 - 3 * (y - BreakYear)

rainfall_trend_after(y) == 200 - (y - BreakYear)

rainfall_trend(y) ==
    IF y < BreakYear THEN rainfall_trend_before(y) ELSE rainfall_trend_after(y)

\* mutant: additive noise of standard deviation 30 mm
monthly_rain_value_additive(c, y, m, z) ==
    rainfall_baselines[c].rain * rainfall_season_factor(m) * rainfall_trend(y) * 10
    + normal(0, 30 * RainUnit, z)

\* monthly_rain = (baseline/12) * season_factor * trend
\*                * np.random.normal(1, seasonal_var)
monthly_rain_value(c, y, m, z) ==
    rainfall_baselines[c].rain
    * rainfall_season_factor(m)
    * rainfall_trend(y)
    * normal(10, rainfall_baselines[c].seasonal_var, z)

\* mutant: baseline * 0.5, the division by 12 lost
drought_threshold_annual(c) == (rainfall_baselines[c].rain * RainUnit * 5) \div 10

\* (baseline/12) * 0.5
drought_threshold(c) == (rainfall_baselines[c].rain * (RainUnit \div 12) * 5) \div 10

\* mutant: the threshold scaled by the seasonal factor of the month
drought_risk_value_seasonal(c, m, monthly_rain) ==
    IF monthly_rain < (drought_threshold(c) * rainfall_season_factor(m)) \div 10
    THEN 1 ELSE 0

\* drought_risk = 1 if monthly_rain < (baseline/12) * 0.5 else 0
drought_risk_value(c, m, monthly_rain) ==
    IF monthly_rain < drought_threshold(c) THEN 1 ELSE 0

\* 'Rainfall': max(0, monthly_rain)
rainfall_stored(monthly_rain) == Max0(monthly_rain)

----------------------------------------------------------------------------
(* load_water_resources_data.  Unit: 1/10000 (season factor in tenths,     *)
(* trend in thousandths).                                                  *)

WaterUnit == 10000

river_baselines ==
    [Hewler |-> 100, Dihok |-> 150, Silemani |-> 120, Helebce |-> 90,
     Kerkuk |-> 80]

groundwater_baselines ==
    [Hewler |-> 50, Dihok |-> 45, Silemani |-> 55, Helebce |-> 60,
     Kerkuk |-> 40]

\* season_factor, in tenths: 1.2, 0.8, 1.0
water_season_factor(m) ==
    IF m \in {3, 4, 5} THEN 12
    ELSE IF m \in {6, 7, 8} THEN 8
    ELSE 10

\* trend, in thousandths: 1.0 and 1.0 - 0.008 * (year - 1980)
water_trend_before(y) == 1000
water_trend_after(y) == 1000 - 8 * (y - BreakYear)

water_trend(y) ==
    IF y < BreakYear THEN water_trend_before(y) ELSE water_trend_after(y)

\* standard deviations 5 and 2
RiverSigma == 5 * WaterUnit
GroundwaterSigma == 2 * WaterUnit

\* river_level = river_baselines[city] * season_factor * trend
\*               + np.random.normal(0, 5)
river_level_value(c, y, m, z) ==
    river_baselines[c] * water_season_factor(m) * water_trend(y)
    + normal(0, RiverSigma, z)

\* groundwater = groundwater_baselines[city] * trend + np.random.normal(0, 2)
groundwater_value(c, y, z) ==
    groundwater_baselines[c] * water_trend(y) * (WaterUnit \div 1000)
    + normal(0, GroundwaterSigma, z)

\* baseline * 0.7
StressThreshold(baseline) == baseline * 7 * (WaterUnit \div 10)

\* mutant: `or` for `and`
water_stress_value_or(c, river_level, groundwater) ==
    IF \/ river_level < StressThreshold(river_baselines[c])
       \/ groundwater < StressThreshold(groundwater_baselines[c])
    THEN 1 ELSE 0

\* water_stress = 1 if (river_level < river_baselines[city] * 0.7 and
\*                      groundwater < groundwater_baselines[city] * 0.7) else 0
water_stress_value(c, river_level, groundwater) ==
    IF /\ river_level < StressThreshold(river_baselines[c])
       /\ groundwater < StressThreshold(groundwater_baselines[c])
    THEN 1 ELSE 0

\* 'RiverLevel': max(0, river_level), 'GroundwaterLevel': max(0, groundwater)
river_stored(river_level) == Max0(river_level)
groundwater_stored(groundwater) == Max0(groundwater)

----------------------------------------------------------------------------
(* load_economic_impact_data.  Unit: 1/1000 (trends in thousandths). *)

EconUnit == 1000

economic_baselines ==
    [Hewler   |-> [energy |-> 1000, agri |-> 800],
     Dihok    |-> [energy |-> 800,  agri |-> 1000],
     Silemani |-> [energy |-> 900,  agri |-> 1100],
     Helebce  |-> [energy |-> 700,  agri |-> 900],
     Kerkuk   |-> [energy |-> 1100, agri |-> 700]]

\* energy_trend: 1.0 and 1.0 + 0.02 * (year - 1980)
energy_trend_before(y) == 1000
energy_trend_after(y) == 1000 + 20 * (y - BreakYear)

energy_trend(y) ==
    IF y < BreakYear THEN energy_trend_before(y) ELSE energy_trend_after(y)

\* agri_trend: 1.0 and 1.0 - 0.005 * (year - 1980)
agri_trend_before(y) == 1000
agri_trend_after(y) == 1000 - 5 * (y - BreakYear)

agri_trend(y) ==
    IF y < BreakYear THEN agri_trend_before(y) ELSE agri_trend_after(y)

\* standard deviations 20 and 30
EnergySigma == 20 * EconUnit
AgriSigma == 30 * EconUnit

\* energy_demand = baselines[city]['energy'] * energy_trend
\*                 + np.random.normal(0, 20)
energy_demand_value(c, y, z) ==
    economic_baselines[c].energy * energy_trend(y) + normal(0, EnergySigma, z)

\* agri_production = baselines[city]['agri'] * agri_trend
\*                   + np.random.normal(0, 30)
agri_production_value(c, y, z) ==
    economic_baselines[c].agri * agri_trend(y) + normal(0, AgriSigma, z)

\* mutant: the clamp lost
energy_stored_unclamped(energy_demand) == energy_demand

\* 'EnergyDemand': max(0, energy_demand),
\* 'AgriculturalProduction': max(0, agri_production)
energy_stored(energy_demand) == Max0(energy_demand)
agri_stored(agri_production) == Max0(agri_production)

----------------------------------------------------------------------------
(* load_health_impact_data.  Unit: 1/1000 (season factor in tenths, trend  *)
(* in hundredths).                                                         *)

HealthUnit == 1000

health_baselines ==
    [Hewler   |-> [heat_stress |-> 30, air_health |-> 80],
     Dihok    |-> [heat_stress |-> 25, air_health |-> 85],
     Silemani |-> [heat_stress |-> 20, air_health |-> 90],
     Helebce  |-> [heat_stress |-> 20, air_health |-> 90],
     Kerkuk   |-> [heat_stress |-> 35, air_health |-> 75]]

\* season_factor, in tenths: 1.5, 0.7, 1.0
health_season_factor(m) ==
    IF m \in {6, 7, 8} THEN 15
    ELSE IF m \in {12, 1, 2} THEN 7
    ELSE 10

\* trend, in hundredths: 1.0 and 1.0 + 0.01 * (year - 1980)
health_trend_before(y) == 100
\* mutant: a rise of 0.03 a year
health_trend_after_steep(y) == 100 + 3 * (y - BreakYear)

health_trend_after(y) == 100 + (y - BreakYear)

health_trend(y) ==
    IF y < BreakYear THEN health_trend_before(y) ELSE health_trend_after(y)

\* standard deviation 2 of both draws
HealthSigma == 2 * HealthUnit

\* heat_stress = baselines[city]['heat_stress'] * season_factor * trend
\*               + np.random.normal(0, 2)
heat_stress_value(c, y, m, z) ==
    health_baselines[c].heat_stress * health_season_factor(m) * health_trend(y)
    + normal(0, HealthSigma, z)

\* air_health = baselines[city]['air_health'] * (2 - trend)
\*              + np.random.normal(0, 2)
air_health_value(c, y, z) ==
    health_baselines[c].air_health * (200 - health_trend(y)) * (HealthUnit \div 100)
    + normal(0, HealthSigma, z)

\* 'HeatStressIndex': max(0, heat_stress)
heat_stress_stored(heat_stress) == Max0(heat_stress)

\* mutant: the upper clamp lost
air_health_stored_no_min(air_health) == Max0(air_health)

\* 'AirHealthIndex': max(0, min(100, air_health))
air_health_stored(air_health) ==
    Max0(IF air_health < 100 * HealthUnit THEN air_health ELSE 100 * HealthUnit)

----------------------------------------------------------------------------
(* The generators.  `Load all data` calls them in this order; each has the *)
(* loops for year / [for month /] for city.                                *)

Generators == <<"load_temperature_data", "load_rainfall_data",
                "load_water_resources_data", "load_economic_impact_data",
                "load_health_impact_data">>

NoRow == [table |-> "none"]
NoLocals == [trend |-> 0]

\* the body of the innermost loop has not run yet for (year, month, city)
AtBody(generator) == pc = generator /\ row = NoRow

load_temperature_data ==
    /\ AtBody("load_temperature_data")
    /\ \E z1 \in Draws, z2 \in Draws :
         LET c == cities[city]
             temp == temperature_value(c, year, month, z1)
             extreme_temp == extreme_temp_value(temp, z1, z2)
             is_extreme == is_extreme_value(extreme_temp)
         IN  /\ row' = [table |-> "temperature",
                        Year |-> year, Month |-> month,
                        MonthName |-> month_name[month], City |-> c,
                        Temperature |-> temp, ExtremeHeatDay |-> is_extreme,
                        Season |-> SeasonOf(month)]
             /\ locals' = [trend |-> temperature_trend(year),
                           z1 |-> z1, z2 |-> z2,
                           extreme_temp |-> extreme_temp]
    /\ data' = [data EXCEPT !["temperature"] = @ + 1]
    /\ UNCHANGED <<pc, year, month, city>>
    /\ UNCHANGED pagevars
    /\ UNCHANGED govvars
    /\ UNCHANGED cache

load_rainfall_data ==
    /\ AtBody("load_rainfall_data")
    /\ \E z \in Draws :
         LET c == cities[city]
             monthly_rain == monthly_rain_value(c, year, month, z)
             drought_risk == drought_risk_value(c, month, monthly_rain)
         IN  /\ row' = [table |-> "rainfall",
                        Year |-> year, Month |-> month,
                        MonthName |-> month_name[month], City |-> c,
                        Rainfall |-> rainfall_stored(monthly_rain),
                        DroughtRisk |-> drought_risk,
                        Season |-> SeasonOf(month)]
             /\ locals' = [trend |-> rainfall_trend(year), z1 |-> z,
                           monthly_rain |-> monthly_rain]
    /\ data' = [data EXCEPT !["rainfall"] = @ + 1]
    /\ UNCHANGED <<pc, year, month, city>>
    /\ UNCHANGED pagevars
    /\ UNCHANGED govvars
    /\ UNCHANGED cache

load_water_resources_data ==
    /\ AtBody("load_water_resources_data")
    /\ \E z1 \in Draws, z2 \in Draws :
         LET c == cities[city]
             river_level == river_level_value(c, year, month, z1)
             groundwater == groundwater_value(c, year, z2)
             water_stress == water_stress_value(c, river_level, groundwater)
         IN  /\ row' = [table |-> "water",
                        Year |-> year, Month |-> month,
                        MonthName |-> month_name[month], City |-> c,
                        RiverLevel |-> river_stored(river_level),
                        GroundwaterLevel |-> groundwater_stored(groundwater),
                        WaterStress |-> water_stress,
                        Season |-> SeasonOf(month)]
             /\ locals' = [trend |-> water_trend(year), z1 |-> z1, z2 |-> z2,
                           river_level |-> river_level,
                           groundwater |-> groundwater]
    /\ data' = [data EXCEPT !["water"] = @ + 1]
    /\ UNCHANGED <<pc, year, month, city>>
    /\ UNCHANGED pagevars
    /\ UNCHANGED govvars
    /\ UNCHANGED cache

load_economic_impact_data ==
    /\ AtBody("load_economic_impact_data")
    /\ \E z1 \in Draws, z2 \in Draws :
         LET c == cities[city]
             energy_demand == energy_demand_value(c, year, z1)
             agri_production == agri_production_value(c, year, z2)
         IN  /\ row' = [table |-> "economic",
                        Year |-> year, City |-> c,
                        EnergyDemand |-> energy_stored(energy_demand),
                        AgriculturalProduction |-> agri_stored(agri_production)]
             /\ locals' = [trend |-> energy_trend(year),
                           agri_trend |-> agri_trend(year),
                           z1 |-> z1, z2 |-> z2,
                           energy_demand |-> energy_demand,
                           agri_production |-> agri_production]
    /\ data' = [data EXCEPT !["economic"] = @ + 1]
    /\ UNCHANGED <<pc, year, month, city>>
    /\ UNCHANGED pagevars
    /\ UNCHANGED govvars
    /\ UNCHANGED cache

load_health_impact_data ==
    /\ AtBody("load_health_impact_data")
    /\ \E z1 \in Draws, z2 \in Draws :
         LET c == cities[city]
             heat_stress == heat_stress_value(c, year, month, z1)
             air_health == air_health_value(c, year, z2)
         IN  /\ row' = [table |-> "health",
                        Year |-> year, Month |-> month,
                        MonthName |-> month_name[month], City |-> c,
                        HeatStressIndex |-> heat_stress_stored(heat_stress),
                        AirHealthIndex |-> air_health_stored(air_health),
                        Season |-> SeasonOf(month)]
             /\ locals' = [trend |-> health_trend(year), z1 |-> z1, z2 |-> z2,
                           heat_stress |-> heat_stress,
                           air_health |-> air_health]
    /\ data' = [data EXCEPT !["health"] = @ + 1]
    /\ UNCHANGED <<pc, year, month, city>>
    /\ UNCHANGED pagevars
    /\ UNCHANGED govvars
    /\ UNCHANGED cache

\* mutant: a `for month` loop in every generator
HasMonthLoop_always(generator) == TRUE

\* load_economic_impact_data has no `for month` loop
HasMonthLoop(generator) == generator # "load_economic_impact_data"

LastMonth == HasMonthLoop(pc) => month = 12
LastPosition == year = LastYear /\ LastMonth /\ city = Len(cities)

\* the table a generator builds
TableOf(generator) ==
    IF generator = "load_temperature_data" THEN "temperature"
    ELSE IF generator = "load_rainfall_data" THEN "rainfall"
    ELSE IF generator = "load_water_resources_data" THEN "water"
    ELSE IF generator = "load_economic_impact_data" THEN "economic"
    ELSE "health"

\* nothing is cached for a generator
NoEntry == [rows |-> 0, run |-> 0]

\* mutant: the decorator lost, every call runs the body
Hit_never(generator) == FALSE

\* @st.cache_data: the call finds the value of an earlier call
Hit(generator) == cache[TableOf(generator)] # NoEntry

\* the loop headers: the next (year, month, city), or the end of the loops
\* and `return pd.DataFrame(data)`, whose value st.cache_data stores; `run`
\* tells which run of the body drew the noise of the stored table
for_next ==
    /\ pc \in {Generators[i] : i \in 1 .. Len(Generators)}
    /\ row # NoRow
    /\ row' = NoRow
    /\ locals' = NoLocals
    /\ IF LastPosition
       THEN /\ pc' = "load_all_data"
            /\ year' = FirstYear /\ month' = 1 /\ city' = 1
            /\ cache' = [cache EXCEPT ![TableOf(pc)] =
                            [rows |-> data[TableOf(pc)], run |-> @.run + 1]]
       ELSE /\ pc' = pc
            /\ city' = IF city = Len(cities) THEN 1 ELSE city + 1
            /\ month' = IF city = Len(cities) /\ HasMonthLoop(pc)
                        THEN (IF month = 12 THEN 1 ELSE month + 1)
                        ELSE month
            /\ year' = IF city = Len(cities) /\ LastMonth THEN year + 1 ELSE year
            /\ cache' = cache
    /\ UNCHANGED data
    /\ UNCHANGED pagevars
    /\ UNCHANGED govvars

\* `Load all data`: the five calls in order, up to the first whose value is
\* not cached; that call runs the generator's body, the calls before it
\* return the cached tables
load_all_data ==
    /\ pc = "load_all_data"
    /\ LET missing == {i \in 1 .. Len(Generators) : ~Hit(Generators[i])}
           first == IF missing = {} THEN Len(Generators) + 1
                    ELSE CHOOSE i \in missing : \A j \in missing : i <= j
       IN  /\ pc' = IF missing = {} THEN "sidebar" ELSE Generators[first]
           /\ data' = [t \in Tables |->
                         IF \E i \in 1 .. first - 1 : t = TableOf(Generators[i])
                         THEN cache[t].rows ELSE 0]
    /\ UNCHANGED <<year, month, city, cache, row, locals>>
    /\ UNCHANGED pagevars
    /\ UNCHANGED govvars

----------------------------------------------------------------------------
(* The tables.  A DataFrame is held as its column names and its row count; *)
(* the key columns of its i-th row (i = 1 for pandas' label 0) follow from *)
(* the loop order and are given by KeyRow.  The page script reads the      *)
(* value columns by name only.                                             *)

KeyColumns == {"Year", "Month", "MonthName", "City", "Season"}

Columns(t) ==
    IF t = "temperature" THEN KeyColumns \cup {"Temperature", "ExtremeHeatDay"}
    ELSE IF t = "rainfall" THEN KeyColumns \cup {"Rainfall", "DroughtRisk"}
    ELSE IF t = "water"
         THEN KeyColumns \cup {"RiverLevel", "GroundwaterLevel", "WaterStress"}
    ELSE IF t = "economic"
         THEN {"Year", "City", "EnergyDemand", "AgriculturalProduction"}
    ELSE KeyColumns \cup {"HeatStressIndex", "AirHealthIndex"}

\* the key columns of the i-th row appended by a generator with a month loop
MonthlyKeyRow(i) ==
    LET y == FirstYear + ((i - 1) \div (12 * Len(cities)))
        m == (((i - 1) \div Len(cities)) % 12) + 1
    IN  [Year |-> y, Month |-> m, MonthName |-> month_name[m],
         City |-> cities[((i - 1) % Len(cities)) + 1], Season |-> SeasonOf(m)]

\* the key columns of the i-th row appended by load_economic_impact_data
YearlyKeyRow(i) ==
    [Year |-> FirstYear + ((i - 1) \div Len(cities)),
     City |-> cities[((i - 1) % Len(cities)) + 1]]

MonthlyRows == [i \in 1 .. (LastYear - FirstYear + 1) * 12 * Len(cities) |-> MonthlyKeyRow(i)]
YearlyRows == [i \in 1 .. (LastYear - FirstYear + 1) * Len(cities) |-> YearlyKeyRow(i)]

AllRows(t) == IF t = "economic" THEN YearlyRows ELSE MonthlyRows

\* pd.DataFrame(data): the rows appended so far
df(t) ==
    [columns |-> Columns(t),
     rows |-> IF data[t] = Len(AllRows(t)) THEN AllRows(t)
              ELSE SubSeq(AllRows(t), 1, data[t])]

----------------------------------------------------------------------------
(* The sidebar of 6-dec.py.  The widgets return the values the user set;   *)
(* the two selectboxes (category, chart type) are only read by the         *)
(* visualization code, and the model draws their values there.             *)

CitySet == {cities[i] : i \in 1 .. Len(cities)}
MonthNames == {month_name[m] : m \in months}
SeasonOptions == <<"Winter", "Spring", "Summer", "Autumn">>
SeasonNames == {SeasonOptions[i] : i \in 1 .. Len(SeasonOptions)}

TimeFrames == {"Yearly", "Monthly", "Seasonal"}

\* the values a multiselect over `options` returns: any subset of the first
\* MaxPick options, or all options (the default)
Multiselect(options) ==
    LET n == IF MaxPick < Len(options) THEN MaxPick ELSE Len(options)
    IN  (SUBSET {options[i] : i \in 1 .. n})
        \cup {{options[i] : i \in 1 .. Len(options)}}

\* st.sidebar.multiselect("Select Cities" / "Select Months" / "Select Seasons")
CitySelections == Multiselect(cities)
MonthSelections == Multiselect(month_name)
SeasonSelections == Multiselect(SeasonOptions)

\* the values of the year slider: the default and the break year alone
YearRanges == {<<FirstYear, LastYear>>, <<BreakYear, BreakYear>>}

\* a name the script has not bound
Unbound == "unbound"

\* the script variables of the sidebar; `bound` holds the names among them
\* that an assignment has run for
NoWidgets ==
    [selected_cities |-> Unbound, time_frame |-> Unbound,
     start_year |-> Unbound, end_year |-> Unbound,
     months |-> Unbound, seasons |-> Unbound,
     category |-> Unbound, chart_type |-> Unbound,
     bound |-> {}]

\* the names the time frame, year range and month or season widgets bind
Controls(time_frame) ==
    {"time_frame", "start_year", "end_year"}
    \cup (IF time_frame = "Monthly" THEN {"months"}
          ELSE IF time_frame = "Seasonal" THEN {"seasons"} ELSE {})

NoTables == [t \in Tables |-> Unbound]
NoChart == [figure |-> "none"]
NoPanel == <<>>

\* `Sidebar controls`: cities, time frame, year range, months or seasons
sidebar ==
    /\ pc = "sidebar"
    /\ \E selected_cities \in CitySelections, time_frame \in TimeFrames,
          range \in YearRanges, picked_months \in MonthSelections,
          picked_seasons \in SeasonSelections :
            /\ time_frame # "Monthly" => picked_months = MonthNames
            /\ time_frame # "Seasonal" => picked_seasons = SeasonNames
            /\ widgets' =
                 [widgets EXCEPT
                    !.selected_cities = selected_cities,
                    !.time_frame = time_frame,
                    !.start_year = range[1], !.end_year = range[2],
                    !.months = IF time_frame = "Monthly" THEN picked_months
                               ELSE Unbound,
                    !.seasons = IF time_frame = "Seasonal" THEN picked_seasons
                                ELSE Unbound,
                    !.bound = {"selected_cities"} \cup Controls(time_frame)]
    /\ pc' = "filter"
    /\ UNCHANGED <<year, month, city, data, row, locals>>
    /\ UNCHANGED govvars
    /\ UNCHANGED cache
    /\ UNCHANGED <<filtered, chart, panel, err>>

----------------------------------------------------------------------------
(* filter_data *)

\* mutant: the upper bound of the year range exclusive
InRange_open_end(r) ==
    /\ r.Year >= widgets.start_year
    /\ r.Year < widgets.end_year
    /\ r.City \in widgets.selected_cities

\* the first mask: year range and city selection
InRange(r) ==
    /\ r.Year >= widgets.start_year
    /\ r.Year <= widgets.end_year
    /\ r.City \in widgets.selected_cities

\* mutant: the month restriction never applied
ByMonth_never(t) == FALSE

\* time_frame == "Monthly" and 'Month' in df.columns
ByMonth(t) == widgets.time_frame = "Monthly" /\ "Month" \in Columns(t)

\* time_frame == "Seasonal" and 'Season' in df.columns
BySeason(t) == widgets.time_frame = "Seasonal" /\ "Season" \in Columns(t)

\* the rows filter_data keeps, for the outcome of the two column tests
Keep(by_month, by_season, r) ==
    /\ InRange(r)
    /\ IF by_month THEN r.MonthName \in widgets.months
       ELSE IF by_season THEN r.Season \in widgets.seasons
       ELSE TRUE

\* the positions 1 .. n
Positions(n) == [i \in 1 .. n |-> i]
MonthlyPositions == Positions(Len(MonthlyRows))
YearlyPositions == Positions(Len(YearlyRows))

AllPositions(t) == IF t = "economic" THEN YearlyPositions ELSE MonthlyPositions

\* df.index: the labels of the rows appended so far
Labels(t) ==
    IF data[t] = Len(AllRows(t)) THEN AllPositions(t) ELSE Positions(data[t])

\* mutant: the city mask lost
filter_data_any_city(t) ==
    [columns |-> Columns(t),
     index |-> SelectSeq(Labels(t),
                         LAMBDA i : /\ AllRows(t)[i].Year >= widgets.start_year
                                    /\ AllRows(t)[i].Year <= widgets.end_year)]

\* filter_data(df): the columns of df and the labels (positions in df) of
\* the rows kept, in the order of df
filter_data(t) ==
    LET by_month == ByMonth(t)
        by_season == BySeason(t)
    IN  [columns |-> Columns(t),
         index |-> SelectSeq(Labels(t),
                             LAMBDA i : Keep(by_month, by_season, AllRows(t)[i]))]

\* `Apply filters to all dataframes`: the first call of filter_data raises
\* NameError when a global name its first mask reads is not bound
apply_filters ==
    /\ pc = "filter"
    /\ IF {"start_year", "end_year", "selected_cities"} \subseteq widgets.bound
       THEN /\ filtered' = [t \in Tables |-> filter_data(t)]
            /\ pc' = "charts"
            /\ err' = err
       ELSE /\ filtered' = filtered
            /\ pc' = "done"
            /\ err' = "NameError"
    /\ UNCHANGED <<year, month, city, data, row, locals>>
    /\ UNCHANGED govvars
    /\ UNCHANGED cache
    /\ UNCHANGED <<widgets, chart, panel>>

----------------------------------------------------------------------------
(* The main column: the chart of the selected category and chart type *)

Categories == <<"Temperature & Precipitation", "Water Resources",
                "Economic Impact", "Health Impact", "Seasonal Analysis",
                "Future Projections", "Comparative Analysis">>

\* the options of the second selectbox
ChartTypes(category) ==
    IF category = "Temperature & Precipitation"
    THEN {"Temperature Trends", "Rainfall Patterns", "Extreme Weather Events",
          "Drought Analysis", "Combined View"}
    ELSE IF category = "Water Resources"
    THEN {"River Levels", "Groundwater Levels", "Water Stress Index",
          "Combined Water Resources"}
    ELSE IF category = "Economic Impact"
    THEN {"Energy Demand", "Agricultural Production", "Economic Trends",
          "Combined Economic Impact"}
    ELSE IF category = "Health Impact"
    THEN {"Heat Stress Index", "Air Health Index", "Health Risk Patterns",
          "Combined Health Indicators"}
    ELSE IF category = "Seasonal Analysis"
    THEN {"Temperature Patterns", "Rainfall Distribution",
          "Seasonal Comparisons", "Year-over-Year Changes"}
    ELSE IF category = "Future Projections"
    THEN {"Temperature Forecast", "Rainfall Forecast",
          "Water Resource Outlook", "Combined Projections"}
    ELSE {"City Comparisons", "Trend Analysis", "Regional Patterns",
          "Historical Benchmarks"}

Figure(title, kind, table, reads) ==
    [figure |-> title, kind |-> kind, table |-> table, reads |-> reads]

\* the if / elif chain of `with col1:`: the figure built, its table and the
\* columns it reads
visualization(category, chart_type, time_frame) ==
    IF category = "Temperature & Precipitation" THEN
        IF chart_type = "Temperature Trends" THEN
            IF time_frame = "Yearly"
            THEN Figure("Average Temperature Trends (Yearly)", "line",
                        "temperature", {"Year", "City", "Temperature"})
            ELSE IF time_frame = "Monthly"
            THEN Figure("Temperature Patterns by Month", "line",
                        "temperature", {"Month", "Temperature", "City", "Year"})
            ELSE Figure("Seasonal Temperature Patterns", "line",
                        "temperature", {"Season", "City", "Temperature"})
        ELSE IF chart_type = "Rainfall Patterns" THEN
            IF time_frame = "Yearly"
            THEN Figure("Annual Rainfall Patterns", "line",
                        "rainfall", {"Year", "City", "Rainfall"})
            ELSE IF time_frame = "Monthly"
            THEN Figure("Monthly Rainfall Distribution", "box",
                        "rainfall", {"MonthName", "Rainfall", "City"})
            ELSE Figure("Seasonal Rainfall Patterns", "bar",
                        "rainfall", {"Season", "City", "Rainfall"})
        ELSE NoChart
    ELSE IF category = "Water Resources" THEN
        IF chart_type = "River Levels"
        THEN Figure("River Water Levels", "line",
                    "water", {"Year", "RiverLevel", "City"})
        ELSE IF chart_type = "Groundwater Levels"
        THEN Figure("Groundwater Levels", "line",
                    "water", {"Year", "GroundwaterLevel", "City"})
        ELSE Figure("Combined Water Resources", "scatter",
                    "water", {"City", "Year", "RiverLevel", "GroundwaterLevel"})
    ELSE IF category = "Economic Impact" THEN
        IF chart_type = "Energy Demand"
        THEN Figure("Energy Demand Trends", "line",
                    "economic", {"Year", "EnergyDemand", "City"})
        ELSE IF chart_type = "Agricultural Production"
        THEN Figure("Agricultural Production Trends", "line",
                    "economic", {"Year", "AgriculturalProduction", "City"})
        ELSE Figure("Combined Economic Indicators", "scatter", "economic",
                    {"City", "Year", "EnergyDemand", "AgriculturalProduction"})
    ELSE IF category = "Health Impact" THEN
        IF chart_type = "Heat Stress Index"
        THEN Figure("Heat Stress Index", "line",
                    "health", {"Year", "HeatStressIndex", "City"})
        ELSE IF chart_type = "Air Health Index"
        THEN Figure("Air Quality Health Index", "line",
                    "health", {"Year", "AirHealthIndex", "City"})
        ELSE Figure("Combined Health Indicators", "scatter", "health",
                    {"City", "Year", "HeatStressIndex", "AirHealthIndex"})
    ELSE IF category = "Seasonal Analysis" THEN
        IF chart_type = "Temperature Patterns"
        THEN Figure("Seasonal Temperature Patterns", "line facet_col=Season",
                    "temperature", {"Year", "Season", "City", "Temperature"})
        ELSE IF chart_type = "Rainfall Distribution"
        THEN Figure("Seasonal Rainfall Distribution", "line facet_col=Season",
                    "rainfall", {"Year", "Season", "City", "Rainfall"})
        ELSE Figure("Temperature Distribution by Season", "box",
                    "temperature", {"Season", "Temperature", "City"})
    ELSE NoChart

\* a column read that the table does not have raises KeyError
ChartError(fig) ==
    IF fig # NoChart /\ ~(fig.reads \subseteq filtered[fig.table].columns)
    THEN "KeyError" ELSE "none"

\* the selectboxes `Select Category` and `Select Indicator`, and `with col1:`
charts ==
    /\ pc = "charts"
    /\ \E i \in 1 .. Len(Categories) :
         \E chart_type \in ChartTypes(Categories[i]) :
            LET fig == visualization(Categories[i], chart_type,
                                     widgets.time_frame)
            IN  /\ widgets' = [widgets EXCEPT !.category = Categories[i],
                                              !.chart_type = chart_type]
                /\ err' = ChartError(fig)
                /\ chart' = IF ChartError(fig) = "none" THEN fig ELSE NoChart
                /\ pc' = IF ChartError(fig) = "none" THEN "statistics"
                         ELSE "done"
    /\ UNCHANGED <<year, month, city, data, row, locals>>
    /\ UNCHANGED govvars
    /\ UNCHANGED cache
    /\ UNCHANGED <<filtered, panel>>

----------------------------------------------------------------------------
(* The statistics panel: `with col2:` *)

\* the tables in the order in which the panel reads .iloc[-1] of a city's rows
PanelTables == <<"temperature", "rainfall", "water", "economic", "health">>

\* the columns the panel reads
PanelReads(t) ==
    IF t = "temperature" THEN {"City", "Season", "Temperature", "ExtremeHeatDay"}
    ELSE IF t = "rainfall" THEN {"City", "Season", "Rainfall", "DroughtRisk"}
    ELSE IF t = "water" THEN {"City", "RiverLevel", "GroundwaterLevel"}
    ELSE IF t = "economic" THEN {"City", "EnergyDemand", "AgriculturalProduction"}
    ELSE {"City", "HeatStressIndex", "AirHealthIndex"}

\* the label of the last of the first k rows of `index` whose City is c, and
\* 0 when there is none
RECURSIVE LastOfCity(_, _, _, _)
LastOfCity(t, index, c, k) ==
    IF k = 0 THEN 0
    ELSE IF AllRows(t)[index[k]].City = c THEN index[k]
    ELSE LastOfCity(t, index, c, k - 1)

\* mutant: .iloc[0] of the filtered table
Current_first(t, c) ==
    IF filtered[t].index = <<>> THEN 0 ELSE filtered[t].index[1]

\* city_x = x_df_filtered[x_df_filtered['City'] == city]; city_x[...].iloc[-1]:
\* the label of the row shown as current, 0 when city_x is empty
Current(t, c) == LastOfCity(t, filtered[t].index, c, Len(filtered[t].index))

\* what stops the panel at city c: a missing column, or .iloc[-1] of no rows
PanelError(c) ==
    IF \E i \in 1 .. Len(PanelTables) :
          ~(PanelReads(PanelTables[i]) \subseteq filtered[PanelTables[i]].columns)
    THEN "KeyError"
    ELSE IF \E i \in 1 .. Len(PanelTables) : Current(PanelTables[i], c) = 0
    THEN "IndexError"
    ELSE "none"

\* `for city in selected_cities:` up to the first exception
statistics ==
    /\ pc = "statistics"
    /\ LET order == SelectSeq(cities, LAMBDA c : c \in widgets.selected_cities)
           failing == {i \in 1 .. Len(order) : PanelError(order[i]) # "none"}
           first == IF failing = {} THEN Len(order) + 1
                    ELSE CHOOSE i \in failing : \A j \in failing : i <= j
       IN  /\ panel' = [i \in 1 .. first - 1 |->
                          [city |-> order[i],
                           current |-> [t \in Tables |-> Current(t, order[i])]]]
           /\ err' = IF failing = {} THEN "none" ELSE PanelError(order[first])
    /\ pc' = "done"
    /\ UNCHANGED <<year, month, city, data, row, locals>>
    /\ UNCHANGED govvars
    /\ UNCHANGED cache
    /\ UNCHANGED <<widgets, filtered, chart>>

\* a widget is changed: Streamlit runs the script again from the top, with
\* none of its names bound
rerun ==
    /\ pc = "done"
    /\ pc' = "load_all_data"
    /\ data' = [t \in Tables |-> 0]
    /\ widgets' = NoWidgets
    /\ filtered' = NoTables
    /\ chart' = NoChart
    /\ panel' = NoPanel
    /\ err' = "none"
    /\ UNCHANGED <<year, month, city, cache, row, locals>>
    /\ UNCHANGED govvars

----------------------------------------------------------------------------
(* The spreadsheet loaders of main.py.  A spreadsheet file is what          *)
(* pd.read_excel finds: an exception, or a header row and data rows.  A     *)
(* header is its text, whether it carries surrounding whitespace and        *)
(* whether it is a string at all; a data row is the kind of its first two   *)
(* cells.  Superscripts are written as digits (m3, Km2).                   *)

\* a sheet has at most MaxSheetRows data rows
MaxSheetRows == 2

Loaders == <<"load_waste_data", "load_waste_forecast_data",
             "load_power_demand_data", "load_power_demand_forecast",
             "load_peak_power_data", "load_dams_ponds_data",
             "load_planning_dams_data">>

Range(s) == {s[i] : i \in 1 .. Len(s)}

\* the column named `text`
Header(text) == [text |-> text, padded |-> FALSE, str |-> TRUE]

\* the column names the page's chart code reads from a loader's table
ChartReads(loader) ==
    IF loader = "load_waste_data" THEN <<"Type", "Percentage">>
    ELSE IF loader = "load_waste_forecast_data"
    THEN <<"Year", "Total Waste Generation (ton/d)">>
    ELSE IF loader = "load_power_demand_data"
    THEN <<"City", "Supplied Demand (MW)", "Potential Peak Demand (MW)",
           "Suppressed Demand (MW)">>
    ELSE IF loader = "load_power_demand_forecast"
    THEN <<"Year", "Erbil", "Dohuk", "Sulaymaniyah">>
    ELSE IF loader = "load_peak_power_data"
    THEN <<"Month", "Electricity Distribution Directorate (1)",
           "Electricity Distribution Directorate (2)", "Salahaddin",
           "Shaqlawa", "Soran", "Koya">>
    ELSE IF loader = "load_dams_ponds_data"
    THEN <<"Dam/Pond Name", "Reservoir Volume (m3)", "Priority",
           "Catchment Area (Km2)", "Height (m)">>
    ELSE <<"Site Name", "Dam Height (m)", "River Catchment", "Type of Dam">>

\* the columns a loader checks for before it returns the table
RequiredColumns(loader) ==
    IF loader = "load_waste_data" THEN {Header("Type"), Header("Percentage")}
    ELSE IF loader = "load_waste_forecast_data"
    THEN {Header("Year"), Header("Total Waste Generation (ton/d)")}
    ELSE {}

\* the loaders with `X.columns = X.columns.str.strip()`
StripsColumns(loader) == loader # "load_power_demand_data"

\* the table of the `return` statement of the except clause
Placeholder(loader) ==
    IF loader = "load_waste_data"
    THEN [columns |-> <<Header("Type"), Header("Percentage")>>, rows |-> <<>>]
    ELSE IF loader = "load_waste_forecast_data"
    THEN [columns |-> <<Header("Year"),
                        Header("Total Waste Generation (ton/d)")>>,
          rows |-> <<>>]
    ELSE [columns |-> <<>>, rows |-> <<>>]

\* the message of st.error in the except clause, without str(e)
ErrorNotice(loader) ==
    IF loader = "load_waste_data" THEN "Error loading waste data"
    ELSE IF loader = "load_waste_forecast_data"
    THEN "Error loading waste forecast data"
    ELSE IF loader = "load_power_demand_data"
    THEN "Error loading power demand data"
    ELSE IF loader = "load_power_demand_forecast"
    THEN "Error loading power demand forecast data"
    ELSE IF loader = "load_peak_power_data"
    THEN "Error loading peak power demand data"
    ELSE IF loader = "load_dams_ponds_data"
    THEN "Error loading dams and ponds data"
    ELSE "Error loading planning dams data"

\* the exceptions pd.read_excel raises: no file, not a workbook, no engine
ReadErrors == {"FileNotFoundError", "BadZipFile", "ImportError"}

\* mutant: `except OSError`
Catches_OSError(e) == e = "FileNotFoundError"

\* `except Exception as e`: the classes derived from Exception among those
\* the try body can raise
Catches(e) == e \in ReadErrors \cup {"AttributeError", "ValueError"}

\* the header rows a file of the loader may have: the columns the chart code
\* reads, the same with surrounding whitespace, all but the first of them,
\* and headers that are numbers
HeaderRows(loader) ==
    LET reads == ChartReads(loader)
        exact == [i \in 1 .. Len(reads) |-> Header(reads[i])]
    IN  {exact,
         [i \in 1 .. Len(reads) |-> [exact[i] EXCEPT !.padded = TRUE]],
         Tail(exact),
         [i \in 1 .. Len(reads) |-> [exact[i] EXCEPT !.str = FALSE]]}

\* the data rows, each the kind of its first cell (label) and of its second
\* cell (value).  In the waste composition file a cell of the column
\* Percentage is a number, a text that is no number or empty, and a cell of
\* the column Type a text or empty; in the waste forecast file a cell of the
\* column Year is a number or a text, and a cell of the column Total Waste
\* Generation (ton/d) a number, a text or empty; in the other files the rows
\* are well-formed
DataRows(loader) ==
    LET cells == IF loader = "load_waste_data"
                 THEN [label : {"text", "blank"},
                       value : {"number", "text", "blank"}]
                 ELSE IF loader = "load_waste_forecast_data"
                 THEN [label : {"number", "text"},
                       value : {"number", "text", "blank"}]
                 ELSE {[label |-> "text", value |-> "number"]}
    IN  UNION {[1 .. n -> cells] : n \in 0 .. MaxSheetRows}

\* what pd.read_excel(file_path) may find
Files(loader) ==
    [exc : ReadErrors, columns : {<<>>}, rows : {<<>>}]
    \cup [exc : {"none"}, columns : HeaderRows(loader), rows : DataRows(loader)]

\* X.columns.str.strip(): the headers without surrounding whitespace
strip(columns) == [i \in 1 .. Len(columns) |-> [columns[i] EXCEPT !.padded = FALSE]]

\* pd.to_numeric(cell, errors='coerce'): a number, or NaN (held as "blank")
to_numeric(cell) == IF cell = "number" THEN "number" ELSE "blank"

\* waste_data['Percentage'] = pd.to_numeric(waste_data['Percentage'],
\*                                          errors='coerce')
coerce(rows) ==
    [i \in 1 .. Len(rows) |-> [rows[i] EXCEPT !.value = to_numeric(@)]]

\* X.dropna(): the rows without an empty cell
dropna(rows) ==
    SelectSeq(rows, LAMBDA r : r.label # "blank" /\ r.value # "blank")

\* the body of `try:` for what pd.read_excel finds: the exception raised
\* in it, or "none" and the table of its `return`
try_body(loader, file) ==
    IF file.exc # "none" THEN [raised |-> file.exc]
    ELSE IF StripsColumns(loader) /\ \E h \in Range(file.columns) : ~h.str
    THEN [raised |-> "AttributeError"]
    ELSE LET columns == IF StripsColumns(loader) THEN strip(file.columns)
                        ELSE file.columns
         IN  IF ~(RequiredColumns(loader) \subseteq Range(columns))
             THEN [raised |-> "ValueError"]
             ELSE [raised |-> "none",
                   table |-> [columns |-> columns,
                              rows |-> IF loader = "load_waste_data"
                                       THEN dropna(coerce(file.rows))
                                       ELSE file.rows]]

\* the name of a table that was not assigned
NoTable == [table |-> "none"]

\* a call of the loader: the table returned, the st.error message of the
\* except clause, and the exception that leaves the function
load(loader, file) ==
    LET body == try_body(loader, file)
    IN  IF body.raised = "none"
        THEN [table |-> body.table, notice |-> <<>>, raised |-> "none",
              e |-> "none"]
        ELSE IF Catches(body.raised)
        THEN [table |-> Placeholder(loader),
              notice |-> <<ErrorNotice(loader)>>, raised |-> "none",
              e |-> body.raised]
        ELSE [table |-> NoTable, notice |-> <<>>, raised |-> body.raised,
              e |-> "none"]

----------------------------------------------------------------------------
(* The section `if data_source == "Governmental Data":` of main.py *)

GovCategories == {"Waste Management", "Power & Energy",
                  "Water Resources Management"}

\* the statements of a category's branch, in program order: the call of a
\* loader, or the `if not X.empty:` block of its table
GovProgram(category) ==
    IF category = "Waste Management"
    THEN <<<<"call", "load_waste_data">>,
           <<"chart", "load_waste_data">>,
           <<"call", "load_waste_forecast_data">>,
           <<"chart", "load_waste_forecast_data">>>>
    ELSE IF category = "Power & Energy"
    THEN <<<<"call", "load_power_demand_data">>,
           <<"chart", "load_power_demand_data">>,
           <<"call", "load_power_demand_forecast">>,
           <<"chart", "load_power_demand_forecast">>,
           <<"call", "load_peak_power_data">>,
           <<"chart", "load_peak_power_data">>>>
    ELSE <<<<"call", "load_dams_ponds_data">>,
           <<"call", "load_planning_dams_data">>,
           <<"chart", "load_dams_ponds_data">>,
           <<"chart", "load_planning_dams_data">>>>

\* the statement at position k of the branch, "done" after the last
StatementAt(category, k) ==
    IF k > Len(GovProgram(category)) THEN "done"
    ELSE IF GovProgram(category)[k][1] = "call" THEN GovProgram(category)[k][2]
    ELSE "gov_chart"

NoSheets == [loader \in Range(Loaders) |-> NoTable]

\* st.sidebar.selectbox("Select Category (Governmental Data)", ...)
gov_category ==
    /\ pc = "gov_category"
    /\ \E category \in GovCategories :
          /\ widgets' = [widgets EXCEPT !.category = category]
          /\ pc' = StatementAt(category, 1)
    /\ step' = 1
    /\ UNCHANGED <<year, month, city, data, row, locals>>
    /\ UNCHANGED <<filtered, chart, panel, err, sheets, notices>>
    /\ UNCHANGED cache

\* X = load_x(): the call of a loader and the return to the branch
Call(loader) ==
    /\ \E file \in Files(loader) :
          LET r == load(loader, file)
          IN  /\ locals' = [file |-> file, e |-> r.e]
              /\ sheets' = [sheets EXCEPT ![loader] = r.table]
              /\ notices' = notices \o r.notice
              /\ err' = r.raised
              /\ pc' = IF r.raised = "none"
                       THEN StatementAt(widgets.category, step + 1)
                       ELSE "done"
    /\ step' = step + 1
    /\ UNCHANGED <<year, month, city, data, row>>
    /\ UNCHANGED <<widgets, filtered, chart, panel>>
    /\ UNCHANGED cache

load_waste_data ==
    /\ pc = "load_waste_data"
    /\ Call("load_waste_data")

load_waste_forecast_data ==
    /\ pc = "load_waste_forecast_data"
    /\ Call("load_waste_forecast_data")

load_power_demand_data ==
    /\ pc = "load_power_demand_data"
    /\ Call("load_power_demand_data")

load_power_demand_forecast ==
    /\ pc = "load_power_demand_forecast"
    /\ Call("load_power_demand_forecast")

load_peak_power_data ==
    /\ pc = "load_peak_power_data"
    /\ Call("load_peak_power_data")

load_dams_ponds_data ==
    /\ pc = "load_dams_ponds_data"
    /\ Call("load_dams_ponds_data")

load_planning_dams_data ==
    /\ pc = "load_planning_dams_data"
    /\ Call("load_planning_dams_data")


\* X.empty: no column or no row
Empty(table) == Len(table.columns) = 0 \/ Len(table.rows) = 0

\* the st.error message of the `else` of `if not X.empty:`
Unavailable(loader) ==
    IF loader = "load_waste_data"
    THEN "Municipal Solid Waste Composition data is unavailable."
    ELSE IF loader = "load_waste_forecast_data"
    THEN "Waste Generation Forecast data is unavailable."
    ELSE IF loader = "load_power_demand_data"
    THEN "Power demand data is unavailable."
    ELSE IF loader = "load_power_demand_forecast"
    THEN "Power demand forecast data is unavailable."
    ELSE IF loader = "load_peak_power_data"
    THEN "Peak Power Demand data is unavailable."
    ELSE IF loader = "load_dams_ponds_data"
    THEN "Dams and Ponds data is unavailable."
    ELSE "Planning Dams data is unavailable."

\* the table has the columns the chart code reads
Chartable(loader, table) ==
    \A i \in 1 .. Len(ChartReads(loader)) :
        Header(ChartReads(loader)[i]) \in Range(table.columns)

\* `if not X.empty:` the charts of X `else: st.error(...)`; a column the
\* charts read and X does not have ends the script run
gov_chart ==
    /\ pc = "gov_chart"
    /\ LET loader == GovProgram(widgets.category)[step][2]
           table == sheets[loader]
       IN  IF Empty(table)
           THEN /\ notices' = notices \o <<Unavailable(loader)>>
                /\ chart' = NoChart
                /\ err' = "none"
                /\ pc' = StatementAt(widgets.category, step + 1)
           ELSE IF Chartable(loader, table)
           THEN /\ notices' = notices
                /\ chart' = [figure |-> loader]
                /\ err' = "none"
                /\ pc' = StatementAt(widgets.category, step + 1)
           ELSE /\ notices' = notices
                /\ chart' = NoChart
                /\ err' = "KeyError"
                /\ pc' = "done"
    /\ step' = step + 1
    /\ UNCHANGED <<year, month, city, data, row, locals>>
    /\ UNCHANGED <<widgets, filtered, panel, sheets>>
    /\ UNCHANGED cache

----------------------------------------------------------------------------

Init ==
    /\ pc = "load_all_data"
    /\ year = FirstYear /\ month = 1 /\ city = 1
    /\ data = [t \in Tables |-> 0]
    /\ cache = [t \in Tables |-> NoEntry]
    /\ row = NoRow
    /\ locals = NoLocals
    /\ widgets = NoWidgets
    /\ filtered = NoTables
    /\ chart = NoChart
    /\ panel = NoPanel
    /\ err = "none"
    /\ step = 0
    /\ sheets = NoSheets
    /\ notices = <<>>

Next ==
    \/ load_all_data
    \/ load_temperature_data
    \/ load_rainfall_data
    \/ load_water_resources_data
    \/ load_economic_impact_data
    \/ load_health_impact_data
    \/ for_next

Spec == Init /\ [][Next]_vars

\* the script run of 6-dec.py once the generators have returned
PageInit ==
    /\ pc = "sidebar"
    /\ year = FirstYear /\ month = 1 /\ city = 1
    /\ data = [t \in Tables |-> Len(AllRows(t))]
    /\ cache = [t \in Tables |-> [rows |-> Len(AllRows(t)), run |-> 1]]
    /\ row = NoRow
    /\ locals = NoLocals
    /\ widgets = NoWidgets
    /\ filtered = NoTables
    /\ chart = NoChart
    /\ panel = NoPanel
    /\ err = "none"
    /\ step = 0
    /\ sheets = NoSheets
    /\ notices = <<>>

PageNext ==
    \/ load_all_data
    \/ sidebar
    \/ apply_filters
    \/ charts
    \/ statistics
    \/ rerun

PageSpec == PageInit /\ [][PageNext]_vars

\* the script run of main.py at `if data_source == "Governmental Data":`
GovInit ==
    /\ pc = "gov_category"
    /\ year = FirstYear /\ month = 1 /\ city = 1
    /\ data = [t \in Tables |-> Len(AllRows(t))]
    /\ cache = [t \in Tables |-> [rows |-> Len(AllRows(t)), run |-> 1]]
    /\ row = NoRow
    /\ locals = NoLocals
    /\ widgets = NoWidgets
    /\ filtered = NoTables
    /\ chart = NoChart
    /\ panel = NoPanel
    /\ err = "none"
    /\ step = 0
    /\ sheets = NoSheets
    /\ notices = <<>>

GovNext ==
    \/ gov_category
    \/ load_waste_data
    \/ load_waste_forecast_data
    \/ load_power_demand_data
    \/ load_power_demand_forecast
    \/ load_peak_power_data
    \/ load_dams_ponds_data
    \/ load_planning_dams_data
    \/ gov_chart

GovSpec == GovInit /\ [][GovNext]_vars

----------------------------------------------------------------------------
(* The sidebar navigation of main.py: the three buttons, the branch of the  *)
(* pressed one, and the sidebar controls below the branches.  The run then  *)
(* goes on with "Open Source Data", the default of the data source          *)
(* selectbox: filter_data, the main column, the statistics panel.           *)

\* load_research_hub_data(): a DataFrame with one row per expert
load_research_hub_data ==
    [type |-> "DataFrame",
     columns |-> {"Name", "Description", "Image_URL", "Paper_1", "Paper_2"},
     rows |-> <<[Name |-> "Dr. John Doe",
                 Description |-> "Expert in Climate Adaptation.",
                 Image_URL |-> "https://via.placeholder.com/150",
                 Paper_1 |-> "Research on Climate Adaptation",
                 Paper_2 |-> "Impact of Extreme Weather Events"],
                [Name |-> "Dr. Jane Doe",
                 Description |-> "Specialist in Water Resources.",
                 Image_URL |-> "https://via.placeholder.com/150",
                 Paper_1 |-> "Hydrology and Water Management",
                 Paper_2 |-> "Water Resource Optimization"]>>]

\* the truth value `not x` asks of x: pandas refuses it for a DataFrame
\* ("The truth value of a DataFrame is ambiguous"), a dict is true when it
\* has a key
Truth(x) ==
    IF x.type = "DataFrame" THEN [raised |-> "ValueError"]
    ELSE [raised |-> "none", value |-> x.columns # {}]

\* one call of st.title, st.subheader, st.write, st.dataframe or st.markdown
Shown(st, text, rows) == [st |-> st, text |-> text, rows |-> rows]

\* the three buttons and the Dashboard branch.  st.sidebar.button returns
\* True in the run its click started, so that at most one button is True in
\* a run
navigation ==
    /\ pc = "navigation"
    /\ \E pressed \in SUBSET {"dashboard", "research_hub", "data_sources"},
          selected_cities \in CitySelections :
          LET show_dashboard == "dashboard" \in pressed
              show_research_hub == "research_hub" \in pressed
              show_data_sources == "data_sources" \in pressed
              dashboard == show_dashboard
                           \/ (~show_research_hub /\ ~show_data_sources)
          IN  /\ Cardinality(pressed) <= 1
              /\ ~dashboard => selected_cities = CitySet
              /\ locals' = [show_dashboard |-> show_dashboard,
                            show_research_hub |-> show_research_hub,
                            show_data_sources |-> show_data_sources]
              /\ widgets' = IF dashboard
                            THEN [widgets EXCEPT
                                    !.selected_cities = selected_cities,
                                    !.bound = @ \cup {"selected_cities"}]
                            ELSE widgets
              /\ panel' = IF dashboard
                          THEN <<Shown("title", "Dashboard", <<>>),
                                 Shown("write", "This is the dashboard page.",
                                       <<>>)>>
                          ELSE panel
              /\ pc' = IF dashboard THEN "controls"
                       ELSE IF show_research_hub THEN "research_hub"
                       ELSE "data_sources"
    /\ UNCHANGED <<year, month, city, data, row>>
    /\ UNCHANGED <<filtered, chart, err>>
    /\ UNCHANGED govvars
    /\ UNCHANGED cache

\* `elif show_research_hub:`
research_hub ==
    /\ pc = "research_hub"
    /\ LET research_data == load_research_hub_data
           top == <<Shown("title", "Research Hub", <<>>),
                    Shown("write",
                          "Explore expert profiles and their research papers.",
                          <<>>),
                    Shown("write", "Loaded Research Data:", <<>>),
                    Shown("write", "", research_data.rows)>>
           test == Truth(research_data)
           keys == <<"Profiles", "Papers", "Topics">>
           heads == <<"Expert Profiles", "Research Papers", "Research Topics">>
           none == <<"No expert profiles available.",
                     "No research papers available.",
                     "No research topics available.">>
       IN  IF test.raised # "none"
           THEN /\ panel' = top
                /\ notices' = notices
                /\ err' = test.raised
                /\ pc' = "done"
           ELSE IF ~test.value
           THEN /\ panel' = top
                /\ notices' = notices \o <<"Research Hub data is unavailable.">>
                /\ err' = err
                /\ pc' = "controls"
           ELSE /\ panel' = top \o [i \in 1 .. 3 |->
                                      Shown("subheader", heads[i], <<>>)]
                /\ notices' = notices
                       \o SelectSeq(none, LAMBDA w :
                              \E i \in 1 .. 3 :
                                  /\ w = none[i]
                                  /\ keys[i] \notin research_data.columns)
                /\ err' = IF \E i \in 1 .. 3 : keys[i] \in research_data.columns
                          THEN "AttributeError" ELSE err
                /\ pc' = IF \E i \in 1 .. 3 : keys[i] \in research_data.columns
                         THEN "done" ELSE "controls"
    /\ UNCHANGED <<year, month, city, data, row, locals>>
    /\ UNCHANGED <<widgets, filtered, chart>>
    /\ UNCHANGED <<step, sheets>>
    /\ UNCHANGED cache

\* `elif show_data_sources:`
data_sources ==
    /\ pc = "data_sources"
    /\ panel' = <<Shown("title", "Data Sources", <<>>),
                  Shown("write", "This section provides detailed information about the data sources used.", <<>>),
                  Shown("markdown", "World Bank Climate Portal", <<>>),
                  Shown("markdown", "NOAA Climate Data", <<>>),
                  Shown("markdown", "FAO AQUASTAT", <<>>)>>
    /\ pc' = "controls"
    /\ UNCHANGED <<year, month, city, data, row, locals>>
    /\ UNCHANGED <<widgets, filtered, chart, err>>
    /\ UNCHANGED govvars
    /\ UNCHANGED cache

\* `# Time range`, `# Year range` and the months or seasons multiselect
controls ==
    /\ pc = "controls"
    /\ \E time_frame \in TimeFrames, range \in YearRanges,
          picked_months \in MonthSelections,
          picked_seasons \in SeasonSelections :
            /\ time_frame # "Monthly" => picked_months = MonthNames
            /\ time_frame # "Seasonal" => picked_seasons = SeasonNames
            /\ widgets' =
                 [widgets EXCEPT
                    !.time_frame = time_frame,
                    !.start_year = range[1], !.end_year = range[2],
                    !.months = IF time_frame = "Monthly" THEN picked_months
                               ELSE Unbound,
                    !.seasons = IF time_frame = "Seasonal" THEN picked_seasons
                                ELSE Unbound,
                    !.bound = @ \cup Controls(time_frame)]
    /\ pc' = "filter"
    /\ UNCHANGED <<year, month, city, data, row, locals>>
    /\ UNCHANGED <<filtered, chart, panel, err>>
    /\ UNCHANGED govvars
    /\ UNCHANGED cache

\* the script run of main.py at `# Sidebar Navigation with Buttons`
NavInit ==
    /\ pc = "navigation"
    /\ year = FirstYear /\ month = 1 /\ city = 1
    /\ data = [t \in Tables |-> Len(AllRows(t))]
    /\ cache = [t \in Tables |-> [rows |-> Len(AllRows(t)), run |-> 1]]
    /\ row = NoRow
    /\ locals = NoLocals
    /\ widgets = NoWidgets
    /\ filtered = NoTables
    /\ chart = NoChart
    /\ panel = NoPanel
    /\ err = "none"
    /\ step = 0
    /\ sheets = NoSheets
    /\ notices = <<>>

NavNext ==
    \/ navigation
    \/ research_hub
    \/ data_sources
    \/ controls
    \/ apply_filters
    \/ charts
    \/ statistics

NavSpec == NavInit /\ [][NavNext]_vars

----------------------------------------------------------------------------
(* Consistency of the model's two views of a table *)

\* the key columns of an appended row are those KeyRow gives for its position
RowKeysAgree ==
    row # NoRow =>
        LET k == AllRows(row.table)[data[row.table]]
        IN  \A col \in DOMAIN k : row[col] = k[col]

\* the generators leave the script in the first state of the page run
LoadsEndInPageInit == pc = "sidebar" => PageInit

----------------------------------------------------------------------------
(* Properties of the generators (specification Spec) *)

\* C1: every stored Rainfall, RiverLevel, GroundwaterLevel, EnergyDemand,
\* AgriculturalProduction and HeatStressIndex is >= 0, whatever the city,
\* year, month and noise draw.
C1_NonNegative ==
    /\ row.table = "rainfall" => row.Rainfall >= 0
    /\ row.table = "water" => row.RiverLevel >= 0 /\ row.GroundwaterLevel >= 0
    /\ row.table = "economic" =>
           row.EnergyDemand >= 0 /\ row.AgriculturalProduction >= 0
    /\ row.table = "health" => row.HeatStressIndex >= 0

\* a row in which both clamps of the economic table have acted
C1_Witness ==
    /\ row.table = "economic"
    /\ locals.energy_demand < 0 /\ row.EnergyDemand = 0
    /\ locals.agri_production < 0 /\ row.AgriculturalProduction = 0

\* C2: every stored AirHealthIndex lies in [0, 100].
C2_AirHealthBounded ==
    row.table = "health" =>
        row.AirHealthIndex >= 0 /\ row.AirHealthIndex <= 100 * HealthUnit

\* a row whose air_health exceeded 100 before the clamp
C2_Witness ==
    /\ row.table = "health"
    /\ locals.air_health > 100 * HealthUnit
    /\ row.AirHealthIndex = 100 * HealthUnit

\* C3: WaterStress is 1 exactly when the stored RiverLevel is below 0.7 x the
\* river baseline and the stored GroundwaterLevel is below 0.7 x the
\* groundwater baseline of the row's city.
C3_WaterStressIsAnd ==
    row.table = "water" =>
        (row.WaterStress = 1 <=>
            /\ 10 * row.RiverLevel < 7 * river_baselines[row.City] * WaterUnit
            /\ 10 * row.GroundwaterLevel
                   < 7 * groundwater_baselines[row.City] * WaterUnit)

\* only the river condition holds (the river level was clamped from below
\* zero) and the flag is 0
C3_Witness ==
    /\ row.table = "water"
    /\ locals.river_level < 0 /\ row.RiverLevel = 0
    /\ 10 * row.GroundwaterLevel >= 7 * groundwater_baselines[row.City] * WaterUnit
    /\ row.WaterStress = 0

\* Rainfall == tenths/10 x (baseline/12)
RainfallIs(r, tenths) ==
    r.Rainfall = tenths * rainfall_baselines[r.City].rain * (RainUnit \div 120)

\* C4: in every month, DroughtRisk is 1 exactly when the stored Rainfall is
\* strictly below 0.5 x (baseline/12); it is 1 at 0.4 x (baseline/12) and 0 at
\* 0.6 x (baseline/12).
C4_DroughtThreshold ==
    row.table = "rainfall" =>
        /\ row.DroughtRisk = 1 <=>
               row.Rainfall < rainfall_baselines[row.City].rain * (RainUnit \div 24)
        /\ RainfallIs(row, 4) => row.DroughtRisk = 1
        /\ RainfallIs(row, 6) => row.DroughtRisk = 0

\* a row with Rainfall == 0.4 x (baseline/12), flagged
C4_Witness ==
    row.table = "rainfall" /\ RainfallIs(row, 4) /\ row.DroughtRisk = 1

\* a row with Rainfall == 0.6 x (baseline/12), not flagged
C4_WitnessAbove ==
    row.table = "rainfall" /\ RainfallIs(row, 6) /\ row.DroughtRisk = 0

\* C5 as stated: DroughtRisk is 1 exactly when the month's rainfall is below
\* 50% of (baseline/12) x the seasonal factor of the row's month.
C5_SeasonalThreshold ==
    row.table = "rainfall" =>
        (row.DroughtRisk = 1 <=>
            locals.monthly_rain
              < rainfall_baselines[row.City].rain
                * rainfall_season_factor(row.Month) * (RainUnit \div 240))

\* C5 amended: the threshold carries no seasonal factor.  DroughtRisk is 1
\* exactly when seasonal factor x trend x noise multiplier is below 0.5, i.e.
\* when the month's rainfall is below 50% of baseline/12.
C5_FlatThreshold ==
    row.table = "rainfall" =>
        (row.DroughtRisk = 1 <=>
            2 * rainfall_season_factor(row.Month) * rainfall_trend(row.Year)
              * normal(10, rainfall_baselines[row.City].seasonal_var, locals.z1)
              < 10 * 200 * 10)

\* a summer row at mean noise: flagged, although its rainfall is the whole
\* seasonal baseline of its month
C5_Witness ==
    /\ row.table = "rainfall"
    /\ row.Month \in {6, 7, 8} /\ locals.z1 = 0 /\ row.Year < BreakYear
    /\ row.DroughtRisk = 1

\* C6: with the noise draw 0, Temperature is
\* baseline - seasonal_var * cos(2 pi (m-1)/12) + trend(y), trend(y) being
\* 0.01 (y-1950) before 1980 and 0.3 + 0.03 (y-1980) from 1980 on; Hewler has
\* 18.0 in 1950/1 and 48.9 in 2000/7.
C6_NoiseFreeTemperature ==
    row.table = "temperature" /\ locals.z1 = 0 =>
        /\ row.Temperature =
               1000 * temperature_baselines[row.City].temp
               - temperature_baselines[row.City].seasonal_var * Cos12[row.Month]
               + (IF row.Year < 1980 THEN 10 * (row.Year - 1950)
                  ELSE 300 + 30 * (row.Year - 1980))
        /\ row.City = "Hewler" /\ row.Year = 1950 /\ row.Month = 1
               => row.Temperature = 18000
        /\ row.City = "Hewler" /\ row.Year = 2000 /\ row.Month = 7
               => row.Temperature = 48900

\* the second scenario: Hewler, July 2000, no noise
C6_Witness ==
    /\ row.table = "temperature" /\ locals.z1 = 0
    /\ row.City = "Hewler" /\ row.Year = 2000 /\ row.Month = 7
    /\ row.Temperature = 48900

\* C7: ExtremeHeatDay holds exactly when the stored Temperature plus the
\* second draw (standard deviation 2) exceeds 40; the second draw is not the
\* first one reused.
C7_ExtremeHeatSecondDraw ==
    row.table = "temperature" =>
        (row.ExtremeHeatDay <=>
            row.Temperature + 2 * TempUnit * locals.z2 > 40 * TempUnit)

\* an extreme-heat row whose Temperature is at most 40, the two draws differing
C7_Witness ==
    /\ row.table = "temperature"
    /\ row.ExtremeHeatDay /\ row.Temperature <= 40 * TempUnit
    /\ locals.z1 # locals.z2

\* a row above 40 that is not an extreme-heat row
C7_WitnessHot ==
    /\ row.table = "temperature"
    /\ ~row.ExtremeHeatDay /\ row.Temperature > 40 * TempUnit

Abs(x) == IF x < 0 THEN -x ELSE x

\* C8: in every family the trend is continuous at 1980: in a row of 1980 the
\* trend used (the `else` branch) equals the pre-1980 formula at 1980, and the
\* noise-free value differs from that of 1979 by less than one standard
\* deviation of the family's noise.
C8_TrendContinuous ==
    row # NoRow /\ row.Year = BreakYear =>
        LET c == row.City
        IN  /\ row.table = "temperature" =>
                /\ locals.trend = temperature_trend_before(BreakYear)
                /\ Abs(temperature_value(c, BreakYear, row.Month, 0)
                       - temperature_value(c, BreakYear - 1, row.Month, 0))
                     < TempSigma
            /\ row.table = "rainfall" =>
                /\ locals.trend = rainfall_trend_before(BreakYear)
                /\ 10 * Abs(monthly_rain_value(c, BreakYear, row.Month, 0)
                            - monthly_rain_value(c, BreakYear - 1, row.Month, 0))
                     < rainfall_baselines[c].seasonal_var
                       * monthly_rain_value(c, BreakYear, row.Month, 0)
            /\ row.table = "water" =>
                /\ locals.trend = water_trend_before(BreakYear)
                /\ Abs(river_level_value(c, BreakYear, row.Month, 0)
                       - river_level_value(c, BreakYear - 1, row.Month, 0))
                     < RiverSigma
                /\ Abs(groundwater_value(c, BreakYear, 0)
                       - groundwater_value(c, BreakYear - 1, 0))
                     < GroundwaterSigma
            /\ row.table = "economic" =>
                /\ locals.trend = energy_trend_before(BreakYear)
                /\ locals.agri_trend = agri_trend_before(BreakYear)
                /\ Abs(energy_demand_value(c, BreakYear, 0)
                       - energy_demand_value(c, BreakYear - 1, 0))
                     < EnergySigma
                /\ Abs(agri_production_value(c, BreakYear, 0)
                       - agri_production_value(c, BreakYear - 1, 0))
                     < AgriSigma
            /\ row.table = "health" =>
                /\ locals.trend = health_trend_before(BreakYear)
                /\ Abs(heat_stress_value(c, BreakYear, row.Month, 0)
                       - heat_stress_value(c, BreakYear - 1, row.Month, 0))
                     < HealthSigma
                /\ Abs(air_health_value(c, BreakYear, 0)
                       - air_health_value(c, BreakYear - 1, 0))
                     < HealthSigma

\* a temperature row of 1980, whose trend 0.3 is the one non-constant
\* pre-1980 formula evaluated at 1980
C8_Witness ==
    /\ row.table = "temperature" /\ row.Year = BreakYear
    /\ locals.trend = 300

\* the additive families: pre-clamp value minus noise-free value is the draw
\* times the family's standard deviation
AdditiveNoise ==
    /\ row.table = "temperature" =>
           row.Temperature
             - temperature_value(row.City, row.Year, row.Month, 0)
           = TempSigma * locals.z1
    /\ row.table = "water" =>
        /\ locals.river_level
             - river_level_value(row.City, row.Year, row.Month, 0)
           = RiverSigma * locals.z1
        /\ locals.groundwater - groundwater_value(row.City, row.Year, 0)
           = GroundwaterSigma * locals.z2
    /\ row.table = "economic" =>
        /\ locals.energy_demand - energy_demand_value(row.City, row.Year, 0)
           = EnergySigma * locals.z1
        /\ locals.agri_production - agri_production_value(row.City, row.Year, 0)
           = AgriSigma * locals.z2
    /\ row.table = "health" =>
        /\ locals.heat_stress
             - heat_stress_value(row.City, row.Year, row.Month, 0)
           = HealthSigma * locals.z1
        /\ locals.air_health - air_health_value(row.City, row.Year, 0)
           = HealthSigma * locals.z2

\* C9 as stated: in every family, rainfall included, the pre-clamp value
\* minus the noise-free value is the noise draw and does not depend on the
\* city, the year or the month: for rainfall it is what the same draw adds
\* in the first row of the table (Hewler, January 1950).
C9_AdditiveEverywhere ==
    /\ AdditiveNoise
    /\ row.table = "rainfall" =>
           locals.monthly_rain
             - monthly_rain_value(row.City, row.Year, row.Month, 0)
           = monthly_rain_value(cities[1], FirstYear, 1, locals.z1)
             - monthly_rain_value(cities[1], FirstYear, 1, 0)

\* C9 amended: the noise is additive with a fixed standard deviation in every
\* family but rainfall (0.5 temperature, 5 river, 2 groundwater, 20 energy,
\* 30 agriculture, 2 heat stress, 2 air health); rainfall is the noise-free
\* value times a factor 1 + seasonal_var(city) * z, whose standard deviation
\* depends on the city.
C9_AdditiveButRainfall ==
    /\ AdditiveNoise
    /\ row.table = "rainfall" =>
           locals.monthly_rain
           = (monthly_rain_value(row.City, row.Year, row.Month, 0) \div 10)
             * (10 + rainfall_baselines[row.City].seasonal_var * locals.z1)

\* a rainfall row whose noise term is not the one the same draw gives in the
\* first row of the table
C9_Witness ==
    /\ row.table = "rainfall" /\ locals.z1 = 1
    /\ locals.monthly_rain
         - monthly_rain_value(row.City, row.Year, row.Month, 0)
       # monthly_rain_value(cities[1], FirstYear, 1, 1)
         - monthly_rain_value(cities[1], FirstYear, 1, 0)

\* the draws of the current iteration are at their mean: 0 for a standard
\* normal deviate, i.e. 0 for an additive term and 1 for the rainfall factor
NoiseFree == row # NoRow /\ locals.z1 = 0 /\ ("z2" \in DOMAIN locals => locals.z2 = 0)

\* the season factors by month, in tenths, and the seasons by month
RainByMonth == <<20, 20, 20, 15, 15, 2, 2, 2, 10, 10, 10, 20>>
WaterByMonth == <<10, 10, 12, 12, 12, 8, 8, 8, 10, 10, 10, 10>>
HeatByMonth == <<7, 7, 10, 10, 10, 15, 15, 15, 10, 10, 10, 7>>
SeasonByMonth == <<"Winter", "Winter", "Spring", "Spring", "Spring", "Summer",
                   "Summer", "Summer", "Autumn", "Autumn", "Autumn", "Winter">>

\* years since 1980, 0 before
Since(y) == IF y < 1980 THEN 0 ELSE y - 1980

\* the row of table t for (c, y, m) as a function of t, c, y and m alone
RowOf(t, c, y, m) ==
    IF t = "temperature" THEN
        LET temp == 1000 * temperature_baselines[c].temp
                    - temperature_baselines[c].seasonal_var * Cos12[m]
                    + (IF y < 1980 THEN 10 * (y - 1950) ELSE 300 + 30 * (y - 1980))
        IN  [table |-> t, Year |-> y, Month |-> m, MonthName |-> month_name[m],
             City |-> c, Temperature |-> temp, ExtremeHeatDay |-> temp > 40000,
             Season |-> SeasonByMonth[m]]
    ELSE IF t = "rainfall" THEN
        LET factor == RainByMonth[m] * (200 - Since(y))
        IN  [table |-> t, Year |-> y, Month |-> m, MonthName |-> month_name[m],
             City |-> c, Rainfall |-> rainfall_baselines[c].rain * factor * 10,
             DroughtRisk |-> IF factor < 1000 THEN 1 ELSE 0,
             Season |-> SeasonByMonth[m]]
    ELSE IF t = "water" THEN
        LET trend == 1000 - 8 * Since(y)
        IN  [table |-> t, Year |-> y, Month |-> m, MonthName |-> month_name[m],
             City |-> c,
             RiverLevel |-> river_baselines[c] * WaterByMonth[m] * trend,
             GroundwaterLevel |-> groundwater_baselines[c] * trend * 10,
             WaterStress |-> IF WaterByMonth[m] * trend < 7000 /\ trend < 700
                             THEN 1 ELSE 0,
             Season |-> SeasonByMonth[m]]
    ELSE IF t = "economic" THEN
        [table |-> t, Year |-> y, City |-> c,
         EnergyDemand |-> economic_baselines[c].energy * (1000 + 20 * Since(y)),
         AgriculturalProduction |->
             economic_baselines[c].agri * (1000 - 5 * Since(y))]
    ELSE
        [table |-> t, Year |-> y, Month |-> m, MonthName |-> month_name[m],
         City |-> c,
         HeatStressIndex |->
             health_baselines[c].heat_stress * HeatByMonth[m] * (100 + Since(y)),
         AirHealthIndex |-> health_baselines[c].air_health * (100 - Since(y)) * 10,
         Season |-> SeasonByMonth[m]]

\* C16: with every draw at its mean, every column of the row appended for
\* (city, year, month), the derived flags and Season included, is a function
\* of the table, the city, the year and the month alone, so that two runs of
\* a generator append the same rows.
C16_NoiseFreeRows ==
    NoiseFree => row = RowOf(row.table, cities[city], year, month)

\* a noise-free row whose derived flag is set: water stress in a summer
\* month of 2020
C16_Witness ==
    /\ NoiseFree /\ row.table = "water"
    /\ row.Year = 2020 /\ row.Month = 7 /\ row.WaterStress = 1
    /\ row = RowOf("water", row.City, 2020, 7)

\* C17: each monthly table (temperature, rainfall, water, health) has exactly
\* one row for every (city, year, month), city one of the five cities, year
\* in 1950..2023, month in 1..12, 4,440 rows in all, and no other row; the
\* economic table has exactly one row for every (city, year), 370 rows.  The
\* k-th row appended is the row of the k-th key in the order year, month,
\* city, and the table returned has a row for the last key.
C17_OneRowPerKey ==
    /\ row # NoRow =>
          /\ row.Year = year /\ year \in 1950 .. 2023
          /\ row.City = cities[city] /\ city \in 1 .. 5
          /\ IF row.table = "economic"
             THEN /\ "Month" \notin DOMAIN row
                  /\ data[row.table] = (year - 1950) * 5 + city
             ELSE /\ row.Month = month /\ month \in 1 .. 12
                  /\ data[row.table] = ((year - 1950) * 12 + (month - 1)) * 5 + city
    /\ \A t \in Tables :
          cache[t] # NoEntry =>
              cache[t].rows = IF t = "economic" THEN 370 ELSE 4440

\* the economic table has been returned with 370 rows, and the health
\* generator appends its last row, the 4,440th
C17_Witness ==
    /\ cache["economic"].rows = 370
    /\ row.table = "health" /\ data["health"] = 4440
    /\ row.Year = 2023 /\ row.Month = 12 /\ row.City = "Kerkuk"

\* C18: for every city (and month), with the noise at its mean, the value
\* generated for a year y > 1980 is strictly above that of the year y - 1 for
\* Temperature and EnergyDemand and strictly below it for Rainfall and
\* AgriculturalProduction: from 1980 on the values are strictly monotonic
\* in the year.
C18_MonotonicFrom1980 ==
    NoiseFree /\ row.Year > BreakYear =>
        LET c == row.City
            y == row.Year
        IN  /\ row.table = "temperature" =>
                  row.Temperature > temperature_value(c, y - 1, row.Month, 0)
            /\ row.table = "rainfall" =>
                  row.Rainfall
                    < rainfall_stored(monthly_rain_value(c, y - 1, row.Month, 0))
            /\ row.table = "economic" =>
                  /\ row.EnergyDemand
                       > energy_stored(energy_demand_value(c, y - 1, 0))
                  /\ row.AgriculturalProduction
                       < agri_stored(agri_production_value(c, y - 1, 0))

\* a noise-free rainfall row of 2023, below the value of 1980 by 43 steps of
\* 0.5% of the untrended value
C18_Witness ==
    /\ NoiseFree /\ row.table = "rainfall" /\ row.Year = LastYear
    /\ row.Rainfall
         = 157 * (rainfall_stored(monthly_rain_value(row.City, BreakYear,
                                                     row.Month, 0)) \div 200)

\* C19: for every city and year, the noise-free temperature over the months
\* 1..12 has its only minimum at month 1 and its only maximum at month 7, and
\* the months m and 14 - m (m in 2..6) have the same noise-free temperature.
C19_AnnualCycle ==
    NoiseFree /\ row.table = "temperature" =>
        LET c == row.City
            y == row.Year
        IN  /\ row.Month # 1 => row.Temperature > temperature_value(c, y, 1, 0)
            /\ row.Month # 7 => row.Temperature < temperature_value(c, y, 7, 0)
            /\ row.Month \in 2 .. 6 =>
                  row.Temperature = temperature_value(c, y, 14 - row.Month, 0)
            /\ row.Month \in 8 .. 12 =>
                  row.Temperature = temperature_value(c, y, 14 - row.Month, 0)

\* a noise-free row of April: the temperature of October, above that of
\* January and below that of July
C19_Witness ==
    /\ NoiseFree /\ row.table = "temperature" /\ row.Month = 4
    /\ row.Temperature = temperature_value(row.City, row.Year, 10, 0)
    /\ row.Temperature > temperature_value(row.City, row.Year, 1, 0)
    /\ row.Temperature < temperature_value(row.City, row.Year, 7, 0)

\* C20: the seasonal multiplier is a function of the calendar month only,
\* the same for every city and year.  For rainfall every month in
\* {12, 1, 2, 3} has a strictly larger multiplier than every other month, for
\* the heat-stress index every month in {6, 7, 8} has; the air-health index
\* carries no seasonal multiplier: it is the same in all months of a year.
C20_SeasonalMultipliers ==
    NoiseFree =>
        LET c == row.City
            y == row.Year
        IN  /\ row.table = "rainfall" =>
                /\ row.Rainfall
                     = RainByMonth[row.Month]
                       * (rainfall_baselines[c].rain * (200 - Since(y)) * 10)
                /\ \A m \in months :
                      row.Month \in {12, 1, 2, 3} /\ m \notin {12, 1, 2, 3} =>
                          /\ RainByMonth[row.Month] > RainByMonth[m]
                          /\ row.Rainfall
                               > rainfall_stored(monthly_rain_value(c, y, m, 0))
            /\ row.table = "health" =>
                /\ row.HeatStressIndex
                     = HeatByMonth[row.Month]
                       * (health_baselines[c].heat_stress * (100 + Since(y)))
                /\ \A m \in months :
                      /\ row.Month \in {6, 7, 8} /\ m \notin {6, 7, 8} =>
                            /\ HeatByMonth[row.Month] > HeatByMonth[m]
                            /\ row.HeatStressIndex
                                 > heat_stress_stored(heat_stress_value(c, y, m, 0))
                      /\ row.AirHealthIndex
                           = RowOf("health", c, y, m).AirHealthIndex

\* a noise-free health row of July: the heat-stress index is above that of
\* May, the air-health index is that of January
C20_Witness ==
    /\ NoiseFree /\ row.table = "health" /\ row.Month = 7
    /\ row.HeatStressIndex
         > heat_stress_stored(heat_stress_value(row.City, row.Year, 5, 0))
    /\ row.AirHealthIndex = RowOf("health", row.City, row.Year, 1).AirHealthIndex

\* a noise-free rainfall row of March, above the rainfall of April
C20_WitnessRain ==
    /\ NoiseFree /\ row.table = "rainfall" /\ row.Month = 3
    /\ row.Rainfall
         > rainfall_stored(monthly_rain_value(row.City, row.Year, 4, 0))

\* C28: with every draw at its mean, no clamp changes a value: for every
\* city, month and year the rainfall, the river and groundwater levels, the
\* energy demand, the agricultural production and the heat-stress index are
\* stored as computed and are strictly positive, the air-health index is
\* stored as computed and lies strictly between 0 and 100, and every trend
\* factor of these products, 2 - trend of the air-health index included, is
\* strictly positive.
C28_NoClampNoiseFree ==
    NoiseFree =>
        /\ row.table = "rainfall" =>
              /\ locals.trend > 0
              /\ locals.monthly_rain > 0
              /\ row.Rainfall = locals.monthly_rain
        /\ row.table = "water" =>
              /\ locals.trend > 0
              /\ locals.river_level > 0 /\ locals.groundwater > 0
              /\ row.RiverLevel = locals.river_level
              /\ row.GroundwaterLevel = locals.groundwater
        /\ row.table = "economic" =>
              /\ locals.trend > 0 /\ locals.agri_trend > 0
              /\ locals.energy_demand > 0 /\ locals.agri_production > 0
              /\ row.EnergyDemand = locals.energy_demand
              /\ row.AgriculturalProduction = locals.agri_production
        /\ row.table = "health" =>
              /\ locals.trend > 0 /\ 200 - locals.trend > 0
              /\ locals.heat_stress > 0
              /\ row.HeatStressIndex = locals.heat_stress
              /\ 0 < locals.air_health /\ locals.air_health < 100 * HealthUnit
              /\ row.AirHealthIndex = locals.air_health

\* the last year, where the falling factors are smallest: the noise-free
\* air-health index of Kerkuk in 2023 is 75 * 0.57 = 42.75
C28_Witness ==
    /\ NoiseFree /\ row.table = "health"
    /\ row.Year = LastYear /\ row.City = "Kerkuk"
    /\ 4 * row.AirHealthIndex = 171 * HealthUnit

\* the driest noise-free river level: Kerkuk in a summer month of 2023,
\* 80 * 0.8 * 0.656
C28_WitnessRiver ==
    /\ NoiseFree /\ row.table = "water"
    /\ row.Year = LastYear /\ row.City = "Kerkuk" /\ row.Month = 7
    /\ row.RiverLevel = 80 * 8 * 656

\* C29: with the rainfall noise multiplier at its mean 1, DroughtRisk is 1 in
\* the rows of months 6, 7 and 8 and 0 in the rows of every other month, for
\* every city and every year.
C29_DroughtInSummerOnly ==
    NoiseFree /\ row.table = "rainfall" =>
        /\ row.Month \in {6, 7, 8} => row.DroughtRisk = 1
        /\ row.Month \notin {6, 7, 8} => row.DroughtRisk = 0

\* the row nearest to the threshold outside summer: an autumn month of 2023,
\* 1.0 * 0.785 of the monthly baseline against the threshold 0.5 of it
C29_Witness ==
    /\ NoiseFree /\ row.table = "rainfall"
    /\ row.Year = LastYear /\ row.Month = 9 /\ row.DroughtRisk = 0
    /\ 100 * (row.Rainfall \div 157) = drought_threshold(row.City)

\* a summer row of the first year
C29_WitnessSummer ==
    /\ NoiseFree /\ row.table = "rainfall"
    /\ row.Year = FirstYear /\ row.Month = 6 /\ row.DroughtRisk = 1

----------------------------------------------------------------------------
(* Properties of the page run (specification PageSpec) *)

Filtered == pc \in {"charts", "statistics", "done"}

\* C10: with no city selected, filter_data returns, for every table, zero
\* rows under the column names of the input, and the chart and statistics
\* code ends without a missing-column or indexing error.
C10_EmptySelection ==
    Filtered /\ widgets.selected_cities = {} =>
        /\ \A t \in Tables :
              /\ filtered[t].index = <<>>
              /\ filtered[t].columns = df(t).columns
        /\ err = "none"
        /\ pc = "done" => panel = <<>>

\* a finished run with no city selected that rendered a chart of an empty table
C10_Witness ==
    /\ pc = "done" /\ widgets.selected_cities = {}
    /\ chart # NoChart /\ filtered[chart.table].index = <<>>
    /\ err = "none"

\* the row of df(t) with label i
RowAt(t, i) == AllRows(t)[i]

\* the Year of the row of df(t) with label i lies in the year range, bounds
\* included, and its City is selected
YearCity(t, i) ==
    /\ widgets.start_year <= RowAt(t, i).Year
    /\ RowAt(t, i).Year <= widgets.end_year
    /\ RowAt(t, i).City \in widgets.selected_cities

\* the labels of these rows, in the order of df(t)
YearCityLabels(t) == SelectSeq(Labels(t), LAMBDA i : YearCity(t, i))

JustFiltered == pc = "charts"

\* C11: in the Yearly time frame filter_data returns exactly the rows whose
\* Year satisfies start_year <= Year <= end_year and whose City is selected,
\* in the order of the input, under the columns of the input; a returned row
\* is the input row of its label.
C11_YearlyExact ==
    JustFiltered /\ widgets.time_frame = "Yearly" =>
        \A t \in Tables :
            /\ filtered[t].index = YearCityLabels(t)
            /\ filtered[t].columns = df(t).columns

\* Yearly, the one-year range 1980..1980 and a proper, non-empty selection
\* of cities: one row per selected city in the economic table, twelve in a
\* monthly table
C11_Witness ==
    /\ JustFiltered /\ widgets.time_frame = "Yearly"
    /\ widgets.start_year = BreakYear /\ widgets.end_year = BreakYear
    /\ widgets.selected_cities = {"Hewler", "Dihok"}
    /\ Len(filtered["economic"].index) = 2
    /\ Len(filtered["temperature"].index) = 24

\* C12: the months restrict a table only in the Monthly time frame and only
\* if it has a Month column, the seasons only in the Seasonal time frame and
\* only if it has a Season column; the economic table has neither and is
\* filtered by year and city alone in every time frame.
C12_ColumnGuards ==
    JustFiltered =>
        LET monthly == widgets.time_frame = "Monthly"
            seasonal == widgets.time_frame = "Seasonal"
            \* the four tables with a month loop have the same key columns
            kept == SelectSeq(MonthlyPositions,
                              LAMBDA i :
                                 /\ YearCity("temperature", i)
                                 /\ monthly =>
                                        MonthlyRows[i].MonthName \in widgets.months
                                 /\ seasonal =>
                                        MonthlyRows[i].Season \in widgets.seasons)
        IN  /\ {"Month", "Season"} \cap Columns("economic") = {}
            /\ filtered["economic"].index = YearCityLabels("economic")
            /\ \A t \in Tables \ {"economic"} :
                  /\ {"Month", "MonthName", "Season"} \subseteq Columns(t)
                  /\ Labels(t) = MonthlyPositions
                  /\ filtered[t].index = kept

\* Monthly with January alone selected: the economic table keeps all its rows
\* of the year range, a monthly table one row in twelve
C12_Witness ==
    /\ JustFiltered /\ widgets.time_frame = "Monthly"
    /\ widgets.months = {"January"}
    /\ widgets.selected_cities = CitySet
    /\ widgets.start_year = FirstYear /\ widgets.end_year = LastYear
    /\ Len(filtered["economic"].index) = Len(YearlyRows)
    /\ 12 * Len(filtered["temperature"].index) = Len(MonthlyRows)

\* Seasonal with no season selected: the economic table is not emptied
C12_WitnessSeasonal ==
    /\ JustFiltered /\ widgets.time_frame = "Seasonal"
    /\ widgets.seasons = {} /\ widgets.selected_cities = CitySet
    /\ Len(filtered["economic"].index) > 0
    /\ filtered["health"].index = <<>>

----------------------------------------------------------------------------
(* Properties of the spreadsheet loaders (specification GovSpec) *)

\* the statement just executed was the call of `loader`
JustCalled(loader) ==
    /\ widgets.category \in GovCategories
    /\ step >= 2
    /\ GovProgram(widgets.category)[step - 1] = <<"call", loader>>

\* the file could not be read, its headers could not be stripped, or a
\* column the loader checks for is missing
Failure(loader, file) ==
    \/ file.exc # "none"
    \/ StripsColumns(loader) /\ \E i \in 1 .. Len(file.columns) : ~file.columns[i].str
    \/ \E h \in RequiredColumns(loader) :
          \A i \in 1 .. Len(file.columns) : file.columns[i].text # h.text

\* C13: each of the seven spreadsheet loaders returns normally on every
\* read, parse or validation failure: the failure is reported through
\* st.error, a table is returned, and the page script goes on with its next
\* statement; no exception leaves the loader.
C13_LoadersFailLocally ==
    \A loader \in Range(Loaders) :
        JustCalled(loader) =>
            /\ err = "none"
            /\ sheets[loader] # NoTable
            /\ pc = StatementAt(widgets.category, step)
            /\ Failure(loader, locals.file) =>
                  /\ locals.e # "none"
                  /\ notices # <<>>
                  /\ notices[Len(notices)] = ErrorNotice(loader)

\* a validation failure: the waste composition file lacks the column Type
C13_Witness ==
    /\ JustCalled("load_waste_data")
    /\ locals.file.exc = "none" /\ locals.e = "ValueError"
    /\ notices = <<"Error loading waste data">>
    /\ err = "none" /\ pc = "gov_chart"

\* a read failure of the last loader of the water branch
C13_WitnessRead ==
    /\ JustCalled("load_planning_dams_data")
    /\ locals.file.exc = "BadZipFile" /\ locals.e = "BadZipFile"
    /\ err = "none" /\ pc = "gov_chart"

\* C14 as stated: on any read or parse failure, every loader returns a table
\* with zero rows and the column names the chart code reads from a
\* successful load.
C14_PlaceholderSchema ==
    \A loader \in Range(Loaders) :
        JustCalled(loader) /\ Failure(loader, locals.file) =>
            /\ sheets[loader].rows = <<>>
            /\ Chartable(loader, sheets[loader])

\* the numeric columns of the two waste tables, by the cell of a row that
\* holds them: Percentage; Year and Total Waste Generation (ton/d)
NumericCells(loader, r) ==
    IF loader = "load_waste_data" THEN {r.value} ELSE {r.label, r.value}

\* the loader's `return` in the try body was reached
Success(loader, file) == try_body(loader, file).raised = "none"

\* C21 as stated: after a successful load by either waste loader, every cell
\* of a numeric column of the returned table is a number.
C21_NumericColumns ==
    \A loader \in {"load_waste_data", "load_waste_forecast_data"} :
        JustCalled(loader) /\ Success(loader, locals.file) =>
            \A i \in 1 .. Len(sheets[loader].rows) :
                NumericCells(loader, sheets[loader].rows[i]) = {"number"}

----------------------------------------------------------------------------
(* Properties of the main column (specification PageSpec) *)

\* C30 as stated: for every category and every chart type its selectbox
\* offers, the main column has rendered a chart, and no other chart type of
\* the category renders that same chart.
C30_OneChartPerType ==
    pc = "statistics" =>
        /\ chart # NoChart
        /\ \A other \in ChartTypes(widgets.category) \ {widgets.chart_type} :
              visualization(widgets.category, other, widgets.time_frame)
                  # chart

----------------------------------------------------------------------------
(* Properties of the statistics panel (specification PageSpec) *)

\* C23 as stated: with at least one city selected, in every time frame and
\* for every subset of months or seasons, the empty one included, every
\* selected city has a row in each of the five filtered tables when the
\* panel reads its last row, and the panel raises no IndexError.
C23_PanelHasRows ==
    /\ pc = "statistics" /\ widgets.selected_cities # {} =>
          \A c \in widgets.selected_cities :
              \A i \in 1 .. Len(PanelTables) : Current(PanelTables[i], c) # 0
    /\ pc = "done" => err # "IndexError"

\* the largest month that passes the month or season selection
LargestMonthKept ==
    LET kept == IF widgets.time_frame = "Monthly"
                THEN {m \in months : month_name[m] \in widgets.months}
                ELSE IF widgets.time_frame = "Seasonal"
                THEN {m \in months : SeasonOf(m) \in widgets.seasons}
                ELSE months
    IN  CHOOSE m \in kept : \A n \in kept : n <= m

\* the generation order: year ascending, then month ascending
Earlier(t, i, j) ==
    \/ RowAt(t, i).Year < RowAt(t, j).Year
    \/ /\ RowAt(t, i).Year = RowAt(t, j).Year
       /\ "Month" \in Columns(t) => RowAt(t, i).Month <= RowAt(t, j).Month

\* C26: filter_data keeps the rows in the order of generation, and for every
\* selected city with a row in a filtered table, the row the statistics panel
\* takes with .iloc[-1] is the city's row of end_year and, in a table with
\* months, of the largest month that passes the month or season selection.
C26_LastRowIsLatest ==
    /\ JustFiltered =>
          \A t \in Tables :
              LET index == filtered[t].index
              IN  IF t \in {"rainfall", "water", "health"}
                  \* the same labels as in the temperature table
                  THEN index = filtered["temperature"].index
                  ELSE \A k \in 1 .. Len(index) - 1 :
                          /\ index[k] < index[k + 1]
                          /\ Earlier(t, index[k], index[k + 1])
    /\ pc = "statistics" =>
          \A c \in widgets.selected_cities :
              \A t \in Tables :
                  LET last == Current(t, c)
                  IN  last # 0 =>
                          /\ RowAt(t, last).City = c
                          /\ RowAt(t, last).Year = widgets.end_year
                          /\ "Month" \in Columns(t) =>
                                RowAt(t, last).Month = LargestMonthKept

\* the panel is about to read the last Spring row of Dihok: May 2023
C26_Witness ==
    /\ pc = "statistics"
    /\ widgets.time_frame = "Seasonal" /\ widgets.seasons = {"Spring"}
    /\ widgets.end_year = LastYear /\ "Dihok" \in widgets.selected_cities
    /\ Current("temperature", "Dihok") # 0
    /\ RowAt("temperature", Current("temperature", "Dihok")).Month = 5
    /\ RowAt("temperature", Current("temperature", "Dihok")).Year = LastYear

\* every option of the months or of the seasons multiselect is selected
AllSelected ==
    \/ widgets.time_frame = "Monthly" /\ widgets.months = MonthNames
    \/ widgets.time_frame = "Seasonal" /\ widgets.seasons = SeasonNames

\* C27: in the Monthly frame with all 12 months selected and in the Seasonal
\* frame with all 4 seasons selected, filter_data returns for every table,
\* year range and city set exactly the rows it returns in the Yearly frame
\* (those with Year in the range and City selected); every row of a monthly
\* table carries the MonthName of its month and the Season of its month,
\* Winter for 12, 1, 2, Spring for 3, 4, 5, Summer for 6, 7, 8, Autumn for
\* 9, 10, 11.
C27_AllMonthsIsYearly ==
    /\ JustFiltered /\ AllSelected =>
          \A t \in Tables : filtered[t].index = YearCityLabels(t)
    /\ pc = "filter" /\ widgets.time_frame = "Yearly" =>
          \A i \in 1 .. Len(MonthlyRows) :
              LET r == MonthlyRows[i]
              IN  /\ r.MonthName \in MonthNames /\ r.Season \in SeasonNames
                  /\ r.MonthName = month_name[r.Month]
                  /\ r.Season = "Winter" <=> r.Month \in {12, 1, 2}
                  /\ r.Season = "Spring" <=> r.Month \in {3, 4, 5}
                  /\ r.Season = "Summer" <=> r.Month \in {6, 7, 8}
                  /\ r.Season = "Autumn" <=> r.Month \in {9, 10, 11}

\* all four seasons, all cities, all years: every row of the table is kept
C27_Witness ==
    /\ JustFiltered
    /\ widgets.time_frame = "Seasonal" /\ widgets.seasons = SeasonNames
    /\ widgets.selected_cities = CitySet
    /\ widgets.start_year = FirstYear /\ widgets.end_year = LastYear
    /\ Len(filtered["rainfall"].index) = Len(MonthlyRows)

\* all twelve months, two cities, the break year alone
C27_WitnessMonthly ==
    /\ JustFiltered
    /\ widgets.time_frame = "Monthly" /\ widgets.months = MonthNames
    /\ widgets.selected_cities = {"Hewler", "Dihok"}
    /\ widgets.start_year = BreakYear /\ widgets.end_year = BreakYear
    /\ Len(filtered["health"].index) = 24

----------------------------------------------------------------------------
(* Properties of the navigation of main.py (specification NavSpec) *)

\* C22 as stated: whatever navigation button was pressed, selected_cities is
\* bound when the run comes to `Apply filters to all dataframes`, and
\* filter_data raises no NameError.
C22_SelectedCitiesBound ==
    /\ pc = "filter" => "selected_cities" \in widgets.bound
    /\ err # "NameError"

\* the run of a click on Research Hub, past the Research Hub branch
PastResearchHub ==
    /\ locals = [show_dashboard |-> FALSE, show_research_hub |-> TRUE,
                 show_data_sources |-> FALSE]
    /\ pc # "research_hub"

\* the branch showed the expert: the name as a subheader, the description,
\* and each paper as a list item
ExpertShown(expert) ==
    \A item \in {Shown("subheader", expert.Name, <<>>),
                 Shown("write", expert.Description, <<>>),
                 Shown("markdown", expert.Paper_1, <<>>),
                 Shown("markdown", expert.Paper_2, <<>>)} :
        \E i \in 1 .. Len(panel) : panel[i] = item

\* C24 as stated: a run with Research Hub pressed and Dashboard not pressed
\* gets through the Research Hub branch with no exception and has shown the
\* name, description and papers of every expert of load_research_hub_data.
C24_ResearchHubShown ==
    PastResearchHub =>
        /\ err = "none"
        /\ \A i \in 1 .. Len(load_research_hub_data.rows) :
              ExpertShown(load_research_hub_data.rows[i])

----------------------------------------------------------------------------
(* Properties of the reruns of one process (specification PageSpec, which  *)
(* starts where the first run has loaded the tables, see                   *)
(* LoadsEndInPageInit)                                                     *)

\* C15: in every script run that follows the first one, with any widget
\* values, each of the five tables the run sees is the table of the first
\* run: the body of a generator runs only while nothing is cached for it,
\* the cached table is complete and its noise is that of the first run of
\* the body, and the page (filter, chart, statistics) reads the tables as
\* cached.
C15_TablesOfFirstRun ==
    /\ \A t \in Tables :
          cache[t] # NoEntry =>
              cache[t].run = 1 /\ cache[t].rows = Len(AllRows(t))
    /\ \A i \in 1 .. Len(Generators) :
          pc = Generators[i] => cache[TableOf(pc)] = NoEntry
    /\ pc \in {"sidebar", "filter", "charts", "statistics", "done"} =>
          \A t \in Tables : cache[t] # NoEntry /\ data[t] = cache[t].rows

\* the top of a rerun: no name of the script is bound, and every generator
\* has its table in the cache
C15_Witness ==
    /\ pc = "load_all_data"
    /\ data = [t \in Tables |-> 0]
    /\ \A t \in Tables : cache[t] = [rows |-> Len(AllRows(t)), run |-> 1]

====
